---- MODULE Spec2Model ----
(***************************************************************************)
(* jira_view_core.py, jira_sqlite_cache.py, jira_cache.py and the bulk     *)
(* pre-fetch of jira_tui.py.                                               *)
(*                                                                         *)
(* QueryController: cache-first, non-blocking query execution with a       *)
(* background refresh worker.  Threads are the callers of execute_query /  *)
(* get_background_status and the daemon threads started by                 *)
(* _spawn_background_refresh.  A step holds at most one unprotected read   *)
(* or write of the controller's fields, so that the interleavings the      *)
(* interpreter can produce between two statements are explored; the        *)
(* statements inside one "with update_lock" block form one step, and so do *)
(* setting is_updating and starting the thread, which does nothing until   *)
(* its own first step.                                                     *)
(*                                                                         *)
(* TicketController: the transitions cache under transitions_lock, the     *)
(* blocking fetches, and the threads started by refresh_ticket.            *)
(*                                                                         *)
(* JiraSQLiteCache and JiraCache: the metadata API (get, set, is_cached,   *)
(* get_age, invalidate, clear_all) of one instance of each, given the same *)
(* calls by one thread.                                                    *)
(*                                                                         *)
(* JiraSQLiteCache tables: the tickets, users and query_results rows with  *)
(* their set, get, staleness and clear methods (TableSpec).                *)
(*                                                                         *)
(* Instances on one cache directory: cache.json and the database file as   *)
(* found at start (absent, unreadable), instances of both stores opened    *)
(* for two addresses, closed and reopened, writes the disk refuses and     *)
(* payloads json cannot encode (DiskSpec).                                 *)
(*                                                                         *)
(* The locks: QueryController, TicketController and CacheController        *)
(* called side by side (LockSpec).                                         *)
(*                                                                         *)
(* The query text: execute_query given one of two texts, each worker       *)
(* fetching for the text it was started with (TextSpec).                   *)
(*                                                                         *)
(* get_background_status read element by element beside a caller and its   *)
(* workers (StatusSpec).                                                   *)
(*                                                                         *)
(* JiraSQLiteCache used by several threads: one connection for each        *)
(* thread, sqlite's implicit transactions, set_many_tickets, set_ticket,   *)
(* the reads and clear_tickets statement by statement (ConnSpec).          *)
(*                                                                         *)
(* JiraTUI: the executors of _load_transitions_background and their tasks  *)
(* (PoolSpec).                                                             *)
(*                                                                         *)
(* Several JiraCache instances for one address on one cache.json           *)
(* (TwinSpec).                                                             *)
(*                                                                         *)
(* Each component has its own next-state relation and specification; the   *)
(* other components stay as constructed.                                   *)
(***************************************************************************)
EXTENDS Integers, Sequences, FiniteSets, TLC

\* ---- bounds of the model ------------------------------------------------
NumCallers == 2     \* threads calling the controller
MaxCalls == 2       \* execute_query calls made in all
MaxPages == 2       \* pages one fetch may read
NumTicketThreads == 2   \* threads calling the TicketController
MaxTicketCalls == 3     \* TicketController calls made in all
NumKeys == 2            \* ticket keys
NumLists == 2           \* different transition lists the remote API may answer with
NumCategories == 1      \* cache categories
NumPayloads == 2        \* different payloads given to set
MaxTtl == 2             \* largest ttl given to set, in seconds
MaxTime == 3            \* seconds the clock advances in all
MaxStoreOps == 3        \* cache store calls made in all
MaxTableTime == 1       \* seconds the clock advances between calls on the tables
NumDiskCategories == 2  \* cache categories given to the instances on one directory
MaxDiskOps == 6         \* calls made on the instances of one directory in all
MaxLockCalls == 2       \* calls made on the three controllers together in all
NumConnThreads == 2     \* threads using one JiraSQLiteCache, each with its connection
MaxConnCalls == 3       \* calls these threads make in all
MaxTwinSets == 2        \* set calls made on the JiraCache instances of one address in all
MaxStatusCalls == 2     \* get_background_status calls the polling thread makes in all
MaxLoaders == 2         \* bulk pre-fetches of transitions started in all
NumLoaded == 6          \* tickets in the list a bulk pre-fetch is started for

\* ---- program constants --------------------------------------------------
max_workers == 5    \* _load_transitions_background: ThreadPoolExecutor(max_workers=max_workers)
max_items == 1000   \* safety limit of fetch_all_jql_results
Minute == 60        \* age thresholds of get_age / _format_age, in seconds
Hour == 3600
Day == 86400
ttl_seconds_default == 300   \* get_query_result(jql, ttl_seconds=300)

Callers == 1..NumCallers
QueryTexts == {"project = A", "project = B"}   \* the jql given to execute_query
Workers == 1..MaxCalls       \* a call starts at most one background thread

NoThread == <<"none", 0>>
CallerThread(c) == <<"caller", c>>
WorkerThread(w) == <<"worker", w>>

\* A ticket as the collaborator returns it: its key (the n-th record of the
\* query has key n; keys are unique within one result), and the fetch that
\* produced it, standing for the payload, which differs from fetch to fetch.
Ticket(k, w) == [key |-> k, gen |-> w]

NoResult == [tickets |-> <<>>, status |-> "NONE", is_updating |-> FALSE]
QueryResult(t, s, u) == [tickets |-> t, status |-> s, is_updating |-> u]

\* QueryResult(tickets=[], status="ERROR", error=msg, is_updating=False)
ErrorResult(msg) == [tickets |-> <<>>, status |-> "ERROR", is_updating |-> FALSE, error |-> msg]

\* An exception object: its class and its message, str(e).
NoException == [cls |-> "none", msg |-> ""]
MemoryError == [cls |-> "MemoryError", msg |-> ""]
ThreadStartError == [cls |-> "RuntimeError", msg |-> "can't start new thread"]
Str(e) == e.msg

\* isinstance(e, Exception): what "except Exception" catches.
IsException(e) == e.cls \in {"Exception", "RuntimeError", "MemoryError", "ValueError", "KeyError"}

VARIABLES
    ticket_cache,     \* self.ticket_cache: dict in insertion order, as the sequence of its values
    update_lock,      \* holder of self.update_lock, or NoThread
    is_updating,      \* self.is_updating
    refresh_needed,   \* self.refresh_needed
    nthreads,         \* number of background threads started so far
    snapshot0,        \* the snapshot of the initial state (never changes)
    cpc,              \* caller -> position in execute_query ("done": it has just returned)
    ccalls,           \* caller -> number of execute_query calls made
    force_refresh,    \* caller -> the force_refresh argument of its call
    cache_tickets,    \* caller -> the local copy returned by _get_cached_tickets
    csaw,             \* caller -> value of is_updating read by _spawn_background_refresh
    cstarted,         \* caller -> number of threads its current call started
    cstatus,          \* caller -> the status expression evaluated for the QueryResult
    result,           \* caller -> the QueryResult its call returned
    bg_status,        \* caller -> what get_background_status last told it since its previous call returned
    exc,              \* caller -> the exception raised inside its call, or NoException
    wpc,              \* worker -> position in background_refresh
    all_issues,       \* worker -> list accumulated by fetch_all_jql_results
    wout,             \* worker -> how its fetch ended: "none", "ok", "failed" or "raised"
    wfetch,           \* worker -> number of fetch_all_jql_results calls it made
    cjql,             \* caller -> the jql argument of its call
    wjql,             \* worker -> the jql of the call that started it, held by its closure
    refreshed         \* caller -> whether a refresh had ended with success when its call began

clocals == <<ccalls, force_refresh, cache_tickets, csaw, cstarted, cstatus, result, bg_status>>
cvars == <<cpc, clocals>>
wlocals == <<all_issues, wout, wfetch>>
wvars == <<wpc, wlocals>>
svars == <<ticket_cache, update_lock, is_updating, refresh_needed, nthreads, snapshot0>>
textvars == <<cjql, wjql, refreshed>>
qvars == <<svars, cvars, wvars, exc, textvars>>

VARIABLES
    transitions_cache,  \* self.transitions_cache: dict ticket_key -> transition list
    transitions_lock,   \* holder of self.transitions_lock, or NoThread
    tcalls,             \* number of TicketController calls made so far
    returned,           \* ticket_key -> the lists fetch_transitions calls have returned so far
    tpc,                \* thread -> position in its TicketController call ("done": it has just returned)
    top,                \* thread -> the method it called
    ticket_key,         \* thread -> the ticket_key argument
    response,           \* thread -> what the collaborator answered in this call, Unset before
    transitions,        \* thread -> the local transitions of fetch_transitions
    tret,               \* thread -> the value the call returned
    tknown,             \* thread -> the lists fetch_transitions had returned for the key when the call started
    nrefresh,           \* number of refresh_ticket threads started so far
    rpc,                \* refresh thread -> position in background_refresh
    rkey,               \* refresh thread -> the ticket_key its closure holds
    callback,           \* refresh thread -> whether a callback was passed
    ticket,             \* refresh thread -> its local ticket
    invoked             \* refresh thread -> the arguments callback was invoked with, in order

tshared == <<transitions_cache, transitions_lock, tcalls, returned, nrefresh>>
tlocals == <<top, ticket_key, response, transitions, tret, tknown>>
rvars == <<rpc, rkey, callback, ticket, invoked>>
tvars == <<tshared, tpc, tlocals, rvars>>

VARIABLES
    metadata,     \* JiraSQLiteCache: the rows of table metadata
    cache,        \* JiraCache: self.cache, dict category -> entry dict
    cache_file,   \* JiraCache: the content of cache.json, dict jira_url -> cache
    now,          \* time.time(), in seconds
    last,         \* the last call made on the two stores, with what each returned
    prev          \* the call made before it

mvars == <<metadata, cache, cache_file, now, last, prev>>

VARIABLES
    db_tickets,        \* JiraSQLiteCache: the rows of table tickets
    db_users,          \* JiraSQLiteCache: the rows of table users
    db_query_results   \* JiraSQLiteCache: the rows of table query_results

dbvars == <<db_tickets, db_users, db_query_results>>

VARIABLES
    json_file,   \* the content of cache.json
    db_file,     \* the content of jira_cache.db
    inst,        \* per tracker address: the JiraCache and JiraSQLiteCache opened for it
    dlast        \* the last call made on the instances, with what each returned

diskvars == <<json_file, db_file, inst, dlast>>

VARIABLES
    conn,     \* per thread: self._local.conn, its open transaction and what it holds
    kpc,      \* per thread: its position in a JiraSQLiteCache method
    klocal,   \* per thread: the method, its arguments and locals, what it returned
    khist     \* the calls made by these threads so far, in order, and how each ended

connvars == <<conn, kpc, klocal, khist>>

VARIABLES
    executors,               \* JiraTUI: the ThreadPoolExecutor of each _load_transitions_background
                             \* so far, as the state of its task for each ticket
    tui_transitions_cache,   \* JiraTUI: the keys of self.transitions_cache
    shutdown_flag            \* JiraTUI: self._shutdown_flag

poolvars == <<executors, tui_transitions_cache, shutdown_flag>>

VARIABLES
    gpc,       \* the thread polling get_background_status: which element of the tuple it builds next
    gret,      \* the tuple of its last call, as far as built
    gcalls     \* get_background_status calls this thread made so far

statusvars == <<gpc, gret, gcalls>>

VARIABLES
    live,        \* the JiraCache instances of one address: whether constructed, self.cache,
                 \* and whether inside set between the assignment and _save_cache()
    twin_sets    \* the set calls these instances made so far, in order

twinvars == <<live, twin_sets>>

latevars == <<connvars, poolvars, statusvars, twinvars>>

notticket == <<qvars, mvars, dbvars, diskvars, latevars>>
notstore == <<qvars, tvars, diskvars, latevars>>
notdisk == <<qvars, tvars, mvars, dbvars, latevars>>
notconn == <<qvars, tvars, mvars, diskvars, poolvars, statusvars, twinvars>>
notpool == <<qvars, tvars, mvars, dbvars, diskvars, connvars, statusvars, twinvars>>
notstatus == <<qvars, tvars, mvars, dbvars, diskvars, connvars, poolvars, twinvars>>
nottwin == <<qvars, tvars, mvars, dbvars, db_file, inst, dlast, connvars, poolvars, statusvars>>
ovars == <<tvars, mvars, dbvars, diskvars, latevars>>
xvars == <<exc, ovars, textvars>>
vars == <<svars, cvars, wvars, xvars>>

\* ---- pure helpers ---------------------------------------------------------

\* {t["key"]: t for t in fresh_tickets}: one entry per key, at the position
\* of the key's first occurrence, holding the value of its last occurrence.
RECURSIVE DictPut(_, _)
DictPut(d, t) ==
    IF d = <<>> THEN <<t>>
    ELSE IF Head(d).key = t.key THEN <<t>> \o Tail(d)
    ELSE <<Head(d)>> \o DictPut(Tail(d), t)

RECURSIVE ToDict(_)
ToDict(s) == IF s = <<>> THEN <<>> ELSE DictPut(ToDict(SubSeq(s, 1, Len(s) - 1)), s[Len(s)])

\* list(cache_tickets.values())
Values(d) == d

\* tickets if tickets else []
FetchFromApiResult(tickets) == IF tickets = <<>> THEN <<>> ELSE tickets

InCall(c) == cpc[c] \notin {"idle", "done"}
Started(w) == wpc[w] # "unborn"
Running(w) == wpc[w] \notin {"unborn", "done"}
InFetch(w) == wpc[w] = "page"
TotalCalls == LET RECURSIVE Sum(_)
                  Sum(n) == IF n = 0 THEN 0 ELSE ccalls[n] + Sum(n - 1)
              IN Sum(NumCallers)

\* No thread is in the controller: nobody holds the lock, no refresh runs.
Quiescent ==
    /\ update_lock = NoThread
    /\ is_updating = FALSE
    /\ nthreads = 0
    /\ cpc = [c \in Callers |-> "idle"]
    /\ ccalls = [c \in Callers |-> 0]
    /\ force_refresh = [c \in Callers |-> FALSE]
    /\ cache_tickets = [c \in Callers |-> <<>>]
    /\ csaw = [c \in Callers |-> FALSE]
    /\ cstarted = [c \in Callers |-> 0]
    /\ cstatus = [c \in Callers |-> "NONE"]
    /\ result = [c \in Callers |-> NoResult]
    /\ bg_status = [c \in Callers |-> "none"]
    /\ exc = [c \in Callers |-> NoException]
    /\ wpc = [w \in Workers |-> "unborn"]
    /\ all_issues = [w \in Workers |-> <<>>]
    /\ wout = [w \in Workers |-> "none"]
    /\ cjql = [c \in Callers |-> ""]
    /\ wjql = [w \in Workers |-> ""]
    /\ refreshed = [c \in Callers |-> FALSE]
    /\ wfetch = [w \in Workers |-> 0]

\* ---- TicketController: values ---------------------------------------------

TicketThreads == 1..NumTicketThreads
Refreshers == 1..MaxTicketCalls     \* a refresh_ticket call starts one thread
TicketKeys == 1..NumKeys
TicketThread(t) == <<"ticket", t>>

\* Python values as the controller handles them: None, a list (val 0: the
\* empty list; otherwise val names its content), a response dict (val 0: {};
\* val -1: a dict without the key 'transitions'; otherwise {'transitions':
\* the list val}), a ticket dict (val: its key), an exception raised by the
\* collaborator, and a local not yet assigned.
PyNone == [type |-> "None", val |-> 0]
List(n) == [type |-> "list", val |-> n]
Dict(n) == [type |-> "dict", val |-> n]
TicketDict(k) == [type |-> "ticket", val |-> k]
Raised == [type |-> "raised", val |-> 0]
Unset == [type |-> "unset", val |-> 0]

\* bool(v) of a response or list.
Truthy(v) == v.type \notin {"None", "unset"} /\ v.val # 0

\* response.get('transitions', [])
GetTransitions(r) == IF r.val > 0 THEN List(r.val) ELSE List(0)

\* tickets[0] if tickets else None
FirstOrNone(tickets) == IF Truthy(tickets) THEN TicketDict(tickets.val) ELSE PyNone

\* What call_jira_api(endpoint) does in fetch_transitions: it raises (a
\* collaborator that lets exceptions out), returns None, {} or a dict.
ApiOutcomes == {Raised, PyNone, Dict(0), Dict(-1)} \cup {Dict(n) : n \in 1..NumLists}

\* What fetch_all_jql_results("key = k", ["*all"]) does: raises, [] or [ticket].
FetchOutcomes(k) == {Raised, List(0), List(k)}

\* TicketController.__init__, no call made, no thread started.
TicketQuiescent ==
    /\ transitions_cache = << >>
    /\ transitions_lock = NoThread
    /\ tcalls = 0
    /\ returned = [k \in TicketKeys |-> {}]
    /\ nrefresh = 0
    /\ tpc = [t \in TicketThreads |-> "idle"]
    /\ top = [t \in TicketThreads |-> "none"]
    /\ ticket_key = [t \in TicketThreads |-> 0]
    /\ response = [t \in TicketThreads |-> Unset]
    /\ transitions = [t \in TicketThreads |-> Unset]
    /\ tret = [t \in TicketThreads |-> Unset]
    /\ tknown = [t \in TicketThreads |-> {}]
    /\ rpc = [r \in Refreshers |-> "unborn"]
    /\ rkey = [r \in Refreshers |-> 0]
    /\ callback = [r \in Refreshers |-> FALSE]
    /\ ticket = [r \in Refreshers |-> Unset]
    /\ invoked = [r \in Refreshers |-> <<>>]

\* ---- cache stores: values --------------------------------------------------

Categories == 1..NumCategories
NoneKey == "None"                   \* key=None (no subkey is named 'None')
Subkeys == {NoneKey, "", "k"}       \* the key arguments: None, '' and a project key
Payload(n) == [type |-> "payload", val |-> n]
Payloads == {Payload(n) : n \in 1..NumPayloads}
Ttls == 1..MaxTtl
PyBool(b) == [type |-> "bool", val |-> b]
PyStr(x) == [type |-> "str", val |-> x]
EmptyDict == << >>
jira_url == "https://jira.example"

\* No call made yet.
NoCall == [n |-> 0, op |-> "none", category |-> 0, key |-> NoneKey, force |-> FALSE,
           data |-> PyNone, ttl |-> 0, at |-> 0, sq |-> PyNone, jc |-> PyNone]

\* JiraSQLiteCache.__init__ on a new directory (_init_db creates the empty
\* tables) and JiraCache.__init__ with no cache file (_load_cache returns {}).
StoreQuiescent ==
    /\ metadata = {}
    /\ db_tickets = {}
    /\ db_users = {}
    /\ db_query_results = {}
    /\ cache = EmptyDict
    /\ cache_file = EmptyDict
    /\ now = 0
    /\ last = NoCall
    /\ prev = NoCall

\* ---- store instances on one cache directory: values ------------------------
\* The durable files cache.json and jira_cache.db of one cache directory, and
\* for each tracker address the JiraCache and the JiraSQLiteCache opened for
\* it.  One instance per address is open at a time.  The clock stands still.

Urls == {"https://a", "https://b"}
DiskCategories == 1..NumDiskCategories
Object == [type |-> "object", val |-> 1]     \* a payload json cannot encode, e.g. a set
DiskPayloads == {Payload(1), Object}
DiskFailures == {"none", "denied"}   \* the disk takes a write, or refuses it
NoInstance == [type |-> "no instance", val |-> 0]   \* the constructor raised
NoDiskCall == [n |-> 0, op |-> "none", url |-> "", category |-> 0, key |-> NoneKey,
               data |-> PyNone, fail |-> "none", sq |-> PyNone, jc |-> PyNone]
NoFile == [state |-> "missing", val |-> EmptyDict]
Truncated == [state |-> "corrupt", val |-> EmptyDict]    \* not a JSON text
NotUtf8 == [state |-> "not_utf8", val |-> EmptyDict]     \* not a text at all
NoDb == [state |-> "missing", metadata |-> {}, tickets |-> {}]
NotADb == [state |-> "corrupt", metadata |-> {}, tickets |-> {}]
\* No instance for an address.  saved: the categories whose entry in
\* JiraCache's self.cache has been written to cache.json.
Closed == [open |-> FALSE, jc |-> FALSE, sq |-> FALSE, cache |-> EmptyDict, saved |-> {}]

\* A new cache directory, no instance opened yet.
DiskQuiescent ==
    /\ json_file = NoFile
    /\ db_file = NoDb
    /\ inst = [u \in Urls |-> Closed]
    /\ dlast = NoDiskCall

\* The directory as the first instance may find it: no files, or files that
\* something else left damaged.
DiskFound ==
    /\ json_file \in {NoFile, Truncated, NotUtf8}
    /\ db_file \in {NoDb, NotADb}
    /\ inst = [u \in Urls |-> Closed]
    /\ dlast = NoDiskCall

\* ---- threads on one JiraSQLiteCache: values -------------------------------
ConnThreads == 1..NumConnThreads

\* A connection outside any transaction; inside one it holds its own version
\* of table tickets until commit.
NoTransaction == [in_transaction |-> FALSE, tickets |-> {}]

\* The locals of a thread that made no call yet.
NoLocals == [op |-> "none", n |-> 0, tickets |-> <<>>, keys |-> {}, count |-> 0, removed |-> 0]

ConnQuiescent ==
    /\ conn = [t \in ConnThreads |-> NoTransaction]
    /\ kpc = [t \in ConnThreads |-> "idle"]
    /\ klocal = [t \in ConnThreads |-> NoLocals]
    /\ khist = <<>>

\* JiraTUI.__init__: no pre-fetch started, nothing cached.
PoolQuiescent ==
    /\ executors = <<>>
    /\ tui_transitions_cache = {}
    /\ shutdown_flag = FALSE

\* No get_background_status call made yet.
NoTuple == [is_running |-> FALSE, current |-> PyNone, total |-> PyNone]

StatusQuiescent ==
    /\ gpc = "idle"
    /\ gret = NoTuple
    /\ gcalls = 0

\* The names of the JiraCache instances made for one address.
Twins == {"A", "B", "C"}
NotConstructed == [open |-> FALSE, cache |-> EmptyDict, saving |-> FALSE]

TwinQuiescent ==
    /\ live = [i \in Twins |-> NotConstructed]
    /\ twin_sets = <<>>

\* The components added to the stores at rest.
LateQuiescent == ConnQuiescent /\ PoolQuiescent /\ StatusQuiescent /\ TwinQuiescent

\* The other components at rest beside the QueryController.
OthersQuiescent == TicketQuiescent /\ StoreQuiescent /\ DiskQuiescent /\ LateQuiescent

\* The result of an earlier fetch (generation 0) of n records.
EarlierFetch(n) == [i \in 1..n |-> Ticket(i, 0)]

\* QueryController.__init__
Init ==
    /\ ticket_cache = <<>>
    /\ refresh_needed = FALSE
    /\ snapshot0 = <<>>
    /\ Quiescent
    /\ OthersQuiescent

\* The controller after an earlier refresh has run to its end and stored a
\* snapshot: the state Init reaches by one execute_query and its worker.
WarmInit ==
    /\ \E n \in 1..MaxPages : ticket_cache = ToDict(EarlierFetch(n))
    /\ refresh_needed = TRUE
    /\ snapshot0 = ticket_cache
    /\ Quiescent
    /\ OthersQuiescent

\* ---- execute_query --------------------------------------------------------

\* A caller enters execute_query.
EnterExecuteQuery(c, force) ==
    /\ cpc[c] = "idle"
    /\ TotalCalls < MaxCalls
    /\ cpc' = [cpc EXCEPT ![c] = "get_cached"]
    /\ ccalls' = [ccalls EXCEPT ![c] = @ + 1]
    /\ force_refresh' = [force_refresh EXCEPT ![c] = force]
    /\ UNCHANGED <<exc, ovars, svars, wvars, cache_tickets, csaw, cstarted, cstatus, result, bg_status>>

\* A caller enters execute_query(jql, fields, force_refresh), the query text
\* left aside.
ExecuteQuery(c, force) ==
    /\ EnterExecuteQuery(c, force)
    /\ UNCHANGED textvars

\* A caller enters execute_query(q, fields, force_refresh).
ExecuteQueryFor(c, force, q) ==
    /\ EnterExecuteQuery(c, force)
    /\ cjql' = [cjql EXCEPT ![c] = q]
    /\ refreshed' = [refreshed EXCEPT ![c] = \E w \in Workers : wpc[w] = "done" /\ wout[w] = "ok"]
    /\ UNCHANGED wjql

\* _get_cached_tickets: "with self.update_lock:" entered.
GetCachedAcquire(c) ==
    /\ cpc[c] = "get_cached"
    /\ update_lock = NoThread
    /\ update_lock' = CallerThread(c)
    /\ cpc' = [cpc EXCEPT ![c] = "copying"]
    /\ UNCHANGED <<xvars, snapshot0, ticket_cache, is_updating, refresh_needed, nthreads, wvars, clocals>>

\* _get_cached_tickets: return dict(self.ticket_cache), leaving the with block.
GetCachedCopy(c) ==
    /\ cpc[c] = "copying"
    /\ cache_tickets' = [cache_tickets EXCEPT ![c] = ticket_cache]
    /\ update_lock' = IF update_lock = CallerThread(c) THEN NoThread ELSE update_lock
    /\ cpc' = [cpc EXCEPT ![c] = "spawn_check"]
    /\ UNCHANGED <<xvars, snapshot0, ticket_cache, is_updating, refresh_needed, nthreads, wvars,
                   ccalls, force_refresh, csaw, cstarted, cstatus, result, bg_status>>

\* SpawnCheck with a forced refresh that bypasses the in-flight check.
SpawnCheck_ForceBypasses(c) ==
    /\ cpc[c] = "spawn_check"
    /\ csaw' = [csaw EXCEPT ![c] = is_updating]
    /\ cpc' = [cpc EXCEPT ![c] = IF is_updating /\ ~force_refresh[c] THEN "return" ELSE "spawn_set"]
    /\ UNCHANGED <<xvars, svars, wvars, ccalls, force_refresh, cache_tickets, cstarted, cstatus, result, bg_status>>

\* _spawn_background_refresh: "if self.is_updating: return".
SpawnCheck(c) ==
    /\ cpc[c] = "spawn_check"
    /\ csaw' = [csaw EXCEPT ![c] = is_updating]
    /\ cpc' = [cpc EXCEPT ![c] = IF is_updating THEN "return" ELSE "spawn_set"]
    /\ UNCHANGED <<xvars, svars, wvars, ccalls, force_refresh, cache_tickets, cstarted, cstatus, result, bg_status>>

\* _spawn_background_refresh: "self.is_updating = True", then the daemon
\* thread is created and started (it has not run yet).
StartThread(c) ==
    /\ cpc[c] = "spawn_set"
    /\ nthreads < MaxCalls
    /\ is_updating' = TRUE
    /\ nthreads' = nthreads + 1
    /\ wpc' = [wpc EXCEPT ![nthreads + 1] = "start"]
    /\ cstarted' = [cstarted EXCEPT ![c] = @ + 1]
    /\ cpc' = [cpc EXCEPT ![c] = "return"]
    /\ UNCHANGED <<exc, ovars, snapshot0, ticket_cache, update_lock, refresh_needed, wlocals,
                   ccalls, force_refresh, cache_tickets, csaw, cstatus, result, bg_status>>

\* The thread is started, the query text left aside.
SpawnStart(c) ==
    /\ StartThread(c)
    /\ UNCHANGED textvars

\* The thread is started; background_refresh closes over the call's jql.
SpawnStartFor(c) ==
    /\ StartThread(c)
    /\ wjql' = [wjql EXCEPT ![nthreads + 1] = cjql[c]]
    /\ UNCHANGED <<cjql, refreshed>>

\* ReturnFirstRun reporting the flag as it is now instead of True.
ReturnFirstRun_ReadsFlag(c) ==
    /\ cpc[c] = "return"
    /\ cache_tickets[c] = <<>>
    /\ result' = [result EXCEPT ![c] = QueryResult(<<>>, "FIRST_RUN", is_updating)]
    /\ cpc' = [cpc EXCEPT ![c] = "done"]
    /\ UNCHANGED <<xvars, svars, wvars, ccalls, force_refresh, cache_tickets, csaw, cstarted, cstatus, bg_status>>

\* First run: "if not cache_tickets: return QueryResult([], FIRST_RUN, None, True)".
ReturnFirstRun(c) ==
    /\ cpc[c] = "return"
    /\ cache_tickets[c] = <<>>
    /\ result' = [result EXCEPT ![c] = QueryResult(<<>>, "FIRST_RUN", TRUE)]
    /\ cpc' = [cpc EXCEPT ![c] = "done"]
    /\ UNCHANGED <<xvars, svars, wvars, ccalls, force_refresh, cache_tickets, csaw, cstarted, cstatus, bg_status>>

\* Forced refresh with a snapshot: the cached records, UPDATING, is_updating=True.
ReturnForced(c) ==
    /\ cpc[c] = "return"
    /\ cache_tickets[c] # <<>>
    /\ force_refresh[c]
    /\ result' = [result EXCEPT ![c] = QueryResult(Values(cache_tickets[c]), "UPDATING", TRUE)]
    /\ cpc' = [cpc EXCEPT ![c] = "done"]
    /\ UNCHANGED <<xvars, svars, wvars, ccalls, force_refresh, cache_tickets, csaw, cstarted, cstatus, bg_status>>

\* Snapshot present, not forced: status="UPDATING" if self.is_updating else "CURRENT".
ReturnStatus(c) ==
    /\ cpc[c] = "return"
    /\ cache_tickets[c] # <<>>
    /\ ~force_refresh[c]
    /\ cstatus' = [cstatus EXCEPT ![c] = IF is_updating THEN "UPDATING" ELSE "CURRENT"]
    /\ cpc' = [cpc EXCEPT ![c] = "return_flag"]
    /\ UNCHANGED <<xvars, svars, wvars, ccalls, force_refresh, cache_tickets, csaw, cstarted, result, bg_status>>

\* Snapshot present, not forced: is_updating=self.is_updating, a second read; the result is returned.
ReturnCached(c) ==
    /\ cpc[c] = "return_flag"
    /\ result' = [result EXCEPT ![c] = QueryResult(Values(cache_tickets[c]), cstatus[c], is_updating)]
    /\ cpc' = [cpc EXCEPT ![c] = "done"]
    /\ UNCHANGED <<xvars, svars, wvars, ccalls, force_refresh, cache_tickets, csaw, cstarted, cstatus, bg_status>>

\* The statements of execute_query that can raise, and what they raise:
\* dict(self.ticket_cache) inside the with block, Thread(...).start() after
\* "self.is_updating = True", list(cache_tickets.values()) and QueryResult(...).
RaisedAt(pc) ==
    CASE pc = "copying" -> {MemoryError}
      [] pc = "spawn_set" -> {MemoryError, ThreadStartError}
      [] pc \in {"return", "return_flag"} -> {MemoryError}
      [] OTHER -> {}

\* A statement inside the try block raises e: a with block releases its lock,
\* the flag set before the thread was started stays set, and control goes to
\* the handler that catches e, or out of execute_query.
Raise(c, e) ==
    /\ e \in RaisedAt(cpc[c])
    /\ exc' = [exc EXCEPT ![c] = e]
    /\ update_lock' = IF update_lock = CallerThread(c) THEN NoThread ELSE update_lock
    /\ is_updating' = IF cpc[c] = "spawn_set" THEN TRUE ELSE is_updating
    /\ cpc' = [cpc EXCEPT ![c] = IF IsException(e) THEN "except" ELSE "escaped"]
    /\ UNCHANGED <<ovars, textvars, snapshot0, ticket_cache, refresh_needed, nthreads, wvars, clocals>>

\* Except reporting the flag as it is instead of False.
Except_ReadsFlag(c) ==
    /\ cpc[c] = "except"
    /\ result' = [result EXCEPT ![c] = [ErrorResult(Str(exc[c])) EXCEPT !.is_updating = is_updating]]
    /\ cpc' = [cpc EXCEPT ![c] = "done"]
    /\ UNCHANGED <<xvars, svars, wvars, ccalls, force_refresh, cache_tickets, csaw, cstarted, cstatus, bg_status>>

\* except Exception as e: return QueryResult([], "ERROR", error=str(e), is_updating=False).
Except(c) ==
    /\ cpc[c] = "except"
    /\ result' = [result EXCEPT ![c] = ErrorResult(Str(exc[c]))]
    /\ cpc' = [cpc EXCEPT ![c] = "done"]
    /\ UNCHANGED <<xvars, svars, wvars, ccalls, force_refresh, cache_tickets, csaw, cstarted, cstatus, bg_status>>

\* The caller has used the QueryResult; the locals of the call are gone.
Resume(c) ==
    /\ cpc[c] = "done"
    /\ cpc' = [cpc EXCEPT ![c] = "idle"]
    /\ force_refresh' = [force_refresh EXCEPT ![c] = FALSE]
    /\ cache_tickets' = [cache_tickets EXCEPT ![c] = <<>>]
    /\ csaw' = [csaw EXCEPT ![c] = FALSE]
    /\ cstarted' = [cstarted EXCEPT ![c] = 0]
    /\ cstatus' = [cstatus EXCEPT ![c] = "NONE"]
    /\ result' = [result EXCEPT ![c] = NoResult]
    /\ bg_status' = [bg_status EXCEPT ![c] = "none"]
    /\ exc' = [exc EXCEPT ![c] = NoException]
    /\ UNCHANGED <<ovars, textvars, svars, wvars, ccalls>>

\* get_background_status: is_running = self.is_updating.
GetBackgroundStatus(c) ==
    /\ cpc[c] = "idle"
    /\ bg_status' = [bg_status EXCEPT ![c] = IF is_updating THEN "running" ELSE "idle"]
    /\ UNCHANGED <<xvars, svars, wvars, cpc, ccalls, force_refresh, cache_tickets, csaw, cstarted, cstatus, result>>

\* ---- background_refresh ---------------------------------------------------

\* FetchCall made inside "with self.update_lock:".
FetchCall_UnderLock(w) ==
    /\ wpc[w] = "start"
    /\ update_lock = NoThread
    /\ update_lock' = WorkerThread(w)
    /\ wfetch' = [wfetch EXCEPT ![w] = @ + 1]
    /\ wpc' = [wpc EXCEPT ![w] = "page"]
    /\ UNCHANGED <<xvars, ticket_cache, is_updating, refresh_needed, nthreads, snapshot0, cvars, all_issues, wout>>

\* The thread runs: _fetch_from_api calls utils.fetch_all_jql_results, which
\* first asks get_jql_count for the total.
FetchCall(w) ==
    /\ wpc[w] = "start"
    /\ wfetch' = [wfetch EXCEPT ![w] = @ + 1]
    /\ wpc' = [wpc EXCEPT ![w] = "page"]
    /\ UNCHANGED <<xvars, svars, cvars, all_issues, wout>>

\* One iteration of the page loop whose call_jira_api returned nothing:
\* "if not response: return all_issues".
PageNoResponse(w) ==
    /\ wpc[w] = "page"
    /\ wout' = [wout EXCEPT ![w] = "failed"]
    /\ all_issues' = [all_issues EXCEPT ![w] = FetchFromApiResult(@)]
    /\ wpc' = [wpc EXCEPT ![w] = "acquire"]
    /\ UNCHANGED <<xvars, svars, cvars, wfetch>>

\* One iteration whose response holds no issues: "if not issues: break".
PageEmpty(w) ==
    /\ wpc[w] = "page"
    /\ wout' = [wout EXCEPT ![w] = "ok"]
    /\ all_issues' = [all_issues EXCEPT ![w] = FetchFromApiResult(@)]
    /\ wpc' = [wpc EXCEPT ![w] = "acquire"]
    /\ UNCHANGED <<xvars, svars, cvars, wfetch>>

\* One iteration whose response holds issues: all_issues.extend(issues); the
\* loop ends without a nextPageToken or at max_items, else it goes on.
PageIssues(w, more) ==
    /\ wpc[w] = "page"
    /\ Len(all_issues[w]) < MaxPages
    /\ more => Len(all_issues[w]) + 1 < MaxPages
    /\ LET grown == Append(all_issues[w], Ticket(Len(all_issues[w]) + 1, w))
           ends == ~more \/ Len(grown) >= max_items
       IN /\ all_issues' = [all_issues EXCEPT ![w] = IF ends THEN FetchFromApiResult(grown) ELSE grown]
          /\ wout' = [wout EXCEPT ![w] = IF ends THEN "ok" ELSE @]
          /\ wpc' = [wpc EXCEPT ![w] = IF ends THEN "acquire" ELSE "page"]
    /\ UNCHANGED <<xvars, svars, cvars, wfetch>>

\* PageRaise with the flag cleared in the try block only: the exception ends
\* the thread with the flag still set.
PageRaise_NoFinally(w) ==
    /\ wpc[w] = "page"
    /\ wout' = [wout EXCEPT ![w] = "raised"]
    /\ all_issues' = [all_issues EXCEPT ![w] = <<>>]
    /\ wpc' = [wpc EXCEPT ![w] = "done"]
    /\ UNCHANGED <<xvars, svars, cvars, wfetch>>

\* The fetch raises partway through (the collaborator or the progress
\* callback): the list is lost, "except Exception" prints the error.
PageRaise(w) ==
    /\ wpc[w] = "page"
    /\ wout' = [wout EXCEPT ![w] = "raised"]
    /\ all_issues' = [all_issues EXCEPT ![w] = <<>>]
    /\ wpc' = [wpc EXCEPT ![w] = "finally"]
    /\ UNCHANGED <<xvars, svars, cvars, wfetch>>

\* "with self.update_lock:" entered by the worker.
SwapAcquire(w) ==
    /\ wpc[w] = "acquire"
    /\ update_lock = NoThread
    /\ update_lock' = WorkerThread(w)
    /\ wpc' = [wpc EXCEPT ![w] = "swap"]
    /\ UNCHANGED <<xvars, snapshot0, ticket_cache, is_updating, refresh_needed, nthreads, cvars, wlocals>>

RECURSIVE DictUpdate(_, _)
DictUpdate(d, s) == IF s = <<>> THEN d ELSE DictUpdate(DictPut(d, Head(s)), Tail(s))

\* Swap that binds a local name (ticket_cache = ...) instead of self.ticket_cache.
Swap_AssignsLocal(w) ==
    /\ wpc[w] = "swap"
    /\ refresh_needed' = TRUE
    /\ update_lock' = IF update_lock = WorkerThread(w) THEN NoThread ELSE update_lock
    /\ wpc' = [wpc EXCEPT ![w] = "finally"]
    /\ UNCHANGED <<xvars, snapshot0, ticket_cache, is_updating, nthreads, cvars, wlocals>>

\* Swap that updates the dict in place (self.ticket_cache.update(...)) instead of replacing it.
Swap_UpdatesInPlace(w) ==
    /\ wpc[w] = "swap"
    /\ ticket_cache' = DictUpdate(ticket_cache, all_issues[w])
    /\ refresh_needed' = TRUE
    /\ update_lock' = IF update_lock = WorkerThread(w) THEN NoThread ELSE update_lock
    /\ wpc' = [wpc EXCEPT ![w] = "finally"]
    /\ UNCHANGED <<xvars, snapshot0, is_updating, nthreads, cvars, wlocals>>

\* self.ticket_cache = {t["key"]: t for t in fresh_tickets}; self.refresh_needed = True;
\* the with block is left.
Swap(w) ==
    /\ wpc[w] = "swap"
    /\ ticket_cache' = ToDict(all_issues[w])
    /\ refresh_needed' = TRUE
    /\ update_lock' = IF update_lock = WorkerThread(w) THEN NoThread ELSE update_lock
    /\ wpc' = [wpc EXCEPT ![w] = "finally"]
    /\ UNCHANGED <<xvars, snapshot0, is_updating, nthreads, cvars, wlocals>>

\* finally: self.is_updating = False; the thread ends.
Finally(w) ==
    /\ wpc[w] = "finally"
    /\ is_updating' = FALSE
    /\ wpc' = [wpc EXCEPT ![w] = "done"]
    /\ UNCHANGED <<xvars, snapshot0, ticket_cache, update_lock, refresh_needed, nthreads, cvars, wlocals>>

\* ---- specifications --------------------------------------------------------

CallerLockStep(c) == GetCachedAcquire(c) \/ GetCachedCopy(c)

CallerStep(c) ==
    \/ CallerLockStep(c)
    \/ SpawnCheck(c) \/ SpawnStart(c)
    \/ ReturnFirstRun(c) \/ ReturnForced(c) \/ ReturnStatus(c) \/ ReturnCached(c)
    \/ Resume(c)

FetchStep(w) ==
    \/ FetchCall(w)
    \/ PageNoResponse(w) \/ PageEmpty(w) \/ PageRaise(w)
    \/ \E more \in BOOLEAN : PageIssues(w, more)

WorkerMemoryStep(w) == Swap(w) \/ Finally(w)

WorkerStep(w) == FetchStep(w) \/ SwapAcquire(w) \/ WorkerMemoryStep(w)

Next ==
    \/ \E c \in Callers, force \in BOOLEAN : ExecuteQuery(c, force)
    \/ \E c \in Callers : CallerStep(c)
    \/ \E c \in Callers : GetBackgroundStatus(c)
    \/ \E w \in Workers : WorkerStep(w)

ExceptionStep(c) == (\E e \in {MemoryError, ThreadStartError} : Raise(c, e)) \/ Except(c)

\* The controller's threads, with statements of execute_query that may raise.
ErrNext == Next \/ \E c \in Callers : ExceptionStep(c)

\* The controller from its construction.
Spec == Init /\ [][Next]_vars

\* The controller from a state in which it already holds a snapshot.
WarmSpec == WarmInit /\ [][Next]_vars

\* Every thread is scheduled again and again, and a collaborator call ends
\* (call_jira_api runs its subprocess with a timeout).
FairSpec == Spec /\ \A c \in Callers : WF_vars(CallerStep(c))
                 /\ \A w \in Workers : WF_vars(WorkerStep(w))

\* Every thread is scheduled again and again, but nothing is assumed of the
\* collaborator: a fetch may take forever.
SlowNetworkSpec == Spec /\ \A c \in Callers : WF_vars(CallerStep(c))
                        /\ \A w \in Workers : WF_vars(WorkerMemoryStep(w))

\* The controller when memory or threads may run out inside execute_query.
ErrSpec == Init /\ [][ErrNext]_vars

\* The callers' steps with the query text followed into the worker.
TextCallerStep(c) ==
    \/ CallerLockStep(c)
    \/ SpawnCheck(c) \/ SpawnStartFor(c)
    \/ ReturnFirstRun(c) \/ ReturnForced(c) \/ ReturnStatus(c) \/ ReturnCached(c)
    \/ Resume(c)

TextNext ==
    \/ \E c \in Callers, force \in BOOLEAN, q \in QueryTexts : ExecuteQueryFor(c, force, q)
    \/ \E c \in Callers : TextCallerStep(c)
    \/ \E w \in Workers : WorkerStep(w)

\* The controller called with different query texts.
TextSpec == Init /\ [][TextNext]_vars

\* ---- TicketController -----------------------------------------------------

\* d[k] = v on a dict.
DictSet(d, k, v) == [x \in DOMAIN d \cup {k} |-> IF x = k THEN v ELSE d[x]]

\* d.get(k)
DictGet(d, k) == IF k \in DOMAIN d THEN d[k] ELSE PyNone

\* A thread enters a TicketController method with ticket_key k.
Enter(t, op, k, pc) ==
    /\ tpc[t] = "idle"
    /\ tcalls < MaxTicketCalls
    /\ tcalls' = tcalls + 1
    /\ top' = [top EXCEPT ![t] = op]
    /\ ticket_key' = [ticket_key EXCEPT ![t] = k]
    /\ tknown' = [tknown EXCEPT ![t] = returned[k]]
    /\ tpc' = [tpc EXCEPT ![t] = pc]

\* The call of thread t returns v.
Return(t, v) ==
    /\ tret' = [tret EXCEPT ![t] = v]
    /\ tpc' = [tpc EXCEPT ![t] = "done"]
    /\ returned' = IF top[t] = "fetch_transitions" /\ v.type = "list"
                   THEN [returned EXCEPT ![ticket_key[t]] = @ \cup {v}]
                   ELSE returned

FetchTransitions(t, k) ==
    /\ Enter(t, "fetch_transitions", k, "ft_enter")
    /\ UNCHANGED <<notticket, transitions_cache, transitions_lock, returned, nrefresh,
                   response, transitions, tret, rvars>>

\* fetch_transitions: the first "with self.transitions_lock:" entered.
FtAcquire(t) ==
    /\ tpc[t] = "ft_enter"
    /\ transitions_lock = NoThread
    /\ transitions_lock' = TicketThread(t)
    /\ tpc' = [tpc EXCEPT ![t] = "ft_check"]
    /\ UNCHANGED <<notticket, transitions_cache, tcalls, returned, nrefresh, tlocals, rvars>>

\* if ticket_key in self.transitions_cache: return self.transitions_cache[ticket_key];
\* the with block is left either way.
FtCheck(t) ==
    /\ tpc[t] = "ft_check"
    /\ transitions_lock' = NoThread
    /\ IF ticket_key[t] \in DOMAIN transitions_cache
       THEN Return(t, transitions_cache[ticket_key[t]])
       ELSE /\ tpc' = [tpc EXCEPT ![t] = "ft_call"]
            /\ UNCHANGED <<tret, returned>>
    /\ UNCHANGED <<notticket, transitions_cache, tcalls, nrefresh,
                   top, ticket_key, response, transitions, tknown, rvars>>

\* FtCall outside any try block: an exception of the collaborator leaves the method.
FtCall_NoTry(t, r) ==
    /\ tpc[t] = "ft_call"
    /\ r \in ApiOutcomes
    /\ response' = [response EXCEPT ![t] = r]
    /\ IF r = Raised
       THEN /\ tpc' = [tpc EXCEPT ![t] = "escaped"]
            /\ UNCHANGED <<transitions, tret, returned>>
       ELSE IF ~Truthy(r)
       THEN Return(t, PyNone) /\ UNCHANGED transitions
       ELSE /\ transitions' = [transitions EXCEPT ![t] = GetTransitions(r)]
            /\ tpc' = [tpc EXCEPT ![t] = "ft_acquire"]
            /\ UNCHANGED <<tret, returned>>
    /\ UNCHANGED <<notticket, transitions_cache, transitions_lock, tcalls, nrefresh,
                   top, ticket_key, tknown, rvars>>

\* response = self.utils.call_jira_api(endpoint) inside the try block: an
\* exception is printed and None returned; "if not response: return None";
\* transitions = response.get('transitions', []).
FtCall(t, r) ==
    /\ tpc[t] = "ft_call"
    /\ r \in ApiOutcomes
    /\ response' = [response EXCEPT ![t] = r]
    /\ IF r = Raised \/ ~Truthy(r)
       THEN Return(t, PyNone) /\ UNCHANGED transitions
       ELSE /\ transitions' = [transitions EXCEPT ![t] = GetTransitions(r)]
            /\ tpc' = [tpc EXCEPT ![t] = "ft_acquire"]
            /\ UNCHANGED <<tret, returned>>
    /\ UNCHANGED <<notticket, transitions_cache, transitions_lock, tcalls, nrefresh,
                   top, ticket_key, tknown, rvars>>

\* fetch_transitions: the second "with self.transitions_lock:" entered.
FtStoreAcquire(t) ==
    /\ tpc[t] = "ft_acquire"
    /\ transitions_lock = NoThread
    /\ transitions_lock' = TicketThread(t)
    /\ tpc' = [tpc EXCEPT ![t] = "ft_store"]
    /\ UNCHANGED <<notticket, transitions_cache, tcalls, returned, nrefresh, tlocals, rvars>>

\* self.transitions_cache[ticket_key] = transitions; the with block is left;
\* return transitions.
FtStore(t) ==
    /\ tpc[t] = "ft_store"
    /\ transitions_cache' = DictSet(transitions_cache, ticket_key[t], transitions[t])
    /\ transitions_lock' = NoThread
    /\ Return(t, transitions[t])
    /\ UNCHANGED <<notticket, tcalls, nrefresh, top, ticket_key, response, transitions, tknown, rvars>>

GetCachedTransitions(t, k) ==
    /\ Enter(t, "get_cached_transitions", k, "gc_enter")
    /\ UNCHANGED <<notticket, transitions_cache, transitions_lock, returned, nrefresh,
                   response, transitions, tret, rvars>>

\* get_cached_transitions: "with self.transitions_lock:" entered.
GcAcquire(t) ==
    /\ tpc[t] = "gc_enter"
    /\ transitions_lock = NoThread
    /\ transitions_lock' = TicketThread(t)
    /\ tpc' = [tpc EXCEPT ![t] = "gc_read"]
    /\ UNCHANGED <<notticket, transitions_cache, tcalls, returned, nrefresh, tlocals, rvars>>

\* return self.transitions_cache.get(ticket_key), leaving the with block.
GcRead(t) ==
    /\ tpc[t] = "gc_read"
    /\ transitions_lock' = NoThread
    /\ Return(t, DictGet(transitions_cache, ticket_key[t]))
    /\ UNCHANGED <<notticket, transitions_cache, tcalls, nrefresh,
                   top, ticket_key, response, transitions, tknown, rvars>>

FetchTicket(t, k) ==
    /\ Enter(t, "fetch_ticket", k, "tk_call")
    /\ UNCHANGED <<notticket, transitions_cache, transitions_lock, returned, nrefresh,
                   response, transitions, tret, rvars>>

\* fetch_ticket: tickets = self.utils.fetch_all_jql_results(...) in the try
\* block; return tickets[0] if tickets else None; except: return None.
TkCall(t, r) ==
    /\ tpc[t] = "tk_call"
    /\ r \in FetchOutcomes(ticket_key[t])
    /\ response' = [response EXCEPT ![t] = r]
    /\ Return(t, IF r = Raised THEN PyNone ELSE FirstOrNone(r))
    /\ UNCHANGED <<notticket, transitions_cache, transitions_lock, tcalls, nrefresh,
                   top, ticket_key, transitions, tknown, rvars>>

RefreshTicket(t, k) ==
    /\ Enter(t, "refresh_ticket", k, "rt_spawn")
    /\ UNCHANGED <<notticket, transitions_cache, transitions_lock, returned, nrefresh,
                   response, transitions, tret, rvars>>

\* refresh_ticket: threading.Thread(target=background_refresh, daemon=True).start();
\* the method returns (None) while the thread has not run yet.
RtSpawn(t, cb) ==
    /\ tpc[t] = "rt_spawn"
    /\ nrefresh' = nrefresh + 1
    /\ rpc' = [rpc EXCEPT ![nrefresh + 1] = "start"]
    /\ callback' = [callback EXCEPT ![nrefresh + 1] = cb]
    /\ rkey' = [rkey EXCEPT ![nrefresh + 1] = ticket_key[t]]
    /\ Return(t, PyNone)
    /\ UNCHANGED <<notticket, transitions_cache, transitions_lock, tcalls,
                   top, ticket_key, response, transitions, tknown, ticket, invoked>>

\* The caller has used the returned value; the locals of the call are gone.
TResume(t) ==
    /\ tpc[t] = "done"
    /\ tpc' = [tpc EXCEPT ![t] = "idle"]
    /\ top' = [top EXCEPT ![t] = "none"]
    /\ ticket_key' = [ticket_key EXCEPT ![t] = 0]
    /\ response' = [response EXCEPT ![t] = Unset]
    /\ transitions' = [transitions EXCEPT ![t] = Unset]
    /\ tret' = [tret EXCEPT ![t] = Unset]
    /\ tknown' = [tknown EXCEPT ![t] = {}]
    /\ UNCHANGED <<notticket, tshared, rvars>>

\* ---- TicketController: background_refresh of refresh_ticket ---------------

\* try: tickets = self.utils.fetch_all_jql_results(jql, ["*all"]);
\* ticket = tickets[0] if tickets else None.  An exception goes to the handler.
RwFetch(r, out) ==
    /\ rpc[r] = "start"
    /\ out \in FetchOutcomes(rkey[r])
    /\ ticket' = [ticket EXCEPT ![r] = IF out = Raised THEN Unset ELSE FirstOrNone(out)]
    /\ rpc' = [rpc EXCEPT ![r] = IF out = Raised THEN "except" ELSE "callback"]
    /\ UNCHANGED <<notticket, tshared, tpc, tlocals, rkey, callback, invoked>>

\* Still in the try block: "if callback: callback(ticket)".  The callback
\* returns, or raises, which goes to the same handler.
RwCallback(r, raises) ==
    /\ rpc[r] = "callback"
    /\ raises => callback[r]
    /\ invoked' = [invoked EXCEPT ![r] = IF callback[r] THEN Append(@, ticket[r]) ELSE @]
    /\ rpc' = [rpc EXCEPT ![r] = IF raises THEN "except" ELSE "done"]
    /\ UNCHANGED <<notticket, tshared, tpc, tlocals, rkey, callback, ticket>>

\* except Exception as e: print(...); "if callback: callback(None)".  An
\* exception of this second invocation ends the thread.
RwExcept(r, raises) ==
    /\ rpc[r] = "except"
    /\ raises => callback[r]
    /\ invoked' = [invoked EXCEPT ![r] = IF callback[r] THEN Append(@, PyNone) ELSE @]
    /\ rpc' = [rpc EXCEPT ![r] = IF raises THEN "died" ELSE "done"]
    /\ UNCHANGED <<notticket, tshared, tpc, tlocals, rkey, callback, ticket>>

TicketLockStep(t) == FtAcquire(t) \/ FtCheck(t) \/ FtStoreAcquire(t) \/ FtStore(t) \/ GcAcquire(t) \/ GcRead(t)

TicketCallStep(t) ==
    \/ \E k \in TicketKeys : FetchTransitions(t, k) \/ GetCachedTransitions(t, k)
    \/ \E k \in TicketKeys : FetchTicket(t, k) \/ RefreshTicket(t, k)

TicketThreadStep(t) ==
    \/ TicketLockStep(t)
    \/ \E r \in ApiOutcomes : FtCall(t, r)
    \/ \E r \in FetchOutcomes(ticket_key[t]) : TkCall(t, r)
    \/ \E cb \in BOOLEAN : RtSpawn(t, cb)
    \/ TResume(t)

RefresherStep(r) ==
    \/ \E out \in FetchOutcomes(rkey[r]) : RwFetch(r, out)
    \/ \E raises \in BOOLEAN : RwCallback(r, raises) \/ RwExcept(r, raises)

TicketNext ==
    \/ \E t \in TicketThreads : TicketCallStep(t)
    \/ \E t \in TicketThreads : TicketThreadStep(t)
    \/ \E r \in Refreshers : RefresherStep(r)

\* The TicketController from its construction, its callers and its threads.
TicketSpec == Init /\ [][TicketNext]_vars

\* ---- JiraSQLiteCache: table metadata --------------------------------------

\* pickle.dumps with a payload that loses its content.
Pickle_Lossy(v) == [type |-> "pickle", val |-> Payload(1)]

\* pickle.dumps(data): a blob holding the value; pickle.loads(blob) gives it back.
Pickle(v) == [type |-> "pickle", val |-> v]
Unpickle(b) == b.val

\* KeyValue that passes None on to the table.
KeyValue_AsPassed(key) == key

\* key_value = key if key is not None else ''
KeyValue(key) == IF key # NoneKey THEN key ELSE ""

\* SELECT ... FROM metadata WHERE category = ? AND key = ?
Select(rows, c, kv) == {r \in rows : r.category = c /\ r.key = kv}

\* INSERT OR REPLACE INTO metadata ...: PRIMARY KEY (category, key), a row
\* with the same primary key is deleted before the new row is inserted.
InsertOrReplace(rows, row) == (rows \ Select(rows, row.category, row.key)) \cup {row}

\* _format_age(seconds)
FormatAge(seconds) ==
    IF seconds < Minute THEN PyStr(<<seconds, "s ago">>)
    ELSE IF seconds < Hour THEN PyStr(<<seconds \div Minute, "m ago">>)
    ELSE IF seconds < Day
    THEN LET hours == seconds \div Hour
             mins == (seconds % Hour) \div Minute
         IN IF mins > 0 THEN PyStr(<<hours, "h", mins, "m ago">>) ELSE PyStr(<<hours, "h ago">>)
    ELSE LET days == seconds \div Day
             hours == (seconds % Day) \div Hour
         IN IF hours > 0 THEN PyStr(<<days, "d", hours, "h ago">>) ELSE PyStr(<<days, "d ago">>)

\* JiraSQLiteCache.get at time t
SQLiteGet(rows, t, c, key, force) ==
    IF force THEN PyNone
    ELSE LET found == Select(rows, c, KeyValue(key))
         IN IF found = {} THEN PyNone
            ELSE LET row == CHOOSE r \in found : TRUE
                     age == t - row.cached_at
                 IN IF age > row.ttl THEN PyNone ELSE Unpickle(row.data)

\* JiraSQLiteCache.set at time t
SQLiteSet(rows, t, c, data, ttl, key) ==
    InsertOrReplace(rows, [category |-> c, key |-> KeyValue(key), data |-> Pickle(data),
                           ttl |-> ttl, cached_at |-> t])

\* JiraSQLiteCache.is_cached: self.get(category, key) is not None
SQLiteIsCached(rows, t, c, key) == SQLiteGet(rows, t, c, key, FALSE).type # "None"

\* JiraSQLiteCache.get_age
SQLiteGetAge(rows, t, c, key) ==
    LET found == Select(rows, c, KeyValue(key))
    IN IF found = {} THEN PyNone
       ELSE FormatAge(t - (CHOOSE r \in found : TRUE).cached_at)

\* JiraSQLiteCache.invalidate: DELETE FROM metadata WHERE category = ? AND key = ?
SQLiteInvalidate(rows, c, key) == rows \ Select(rows, c, KeyValue(key))

\* JiraSQLiteCache.clear_all: DELETE FROM each table
SQLiteClearAll(rows) == {}

\* ---- JiraCache: self.cache ---------------------------------------------------

\* del d[k]
DictDel(d, k) == [x \in DOMAIN d \ {k} |-> d[x]]

\* v is None
IsNone(v) == "type" \in DOMAIN v /\ v.type = "None"

\* entry = {'timestamp': time.time(), 'ttl': ttl, 'data': data}
Entry(t, ttl, data) == [timestamp |-> t, ttl |-> ttl, data |-> data]

\* IsExpired that expires an entry when its age reaches ttl.
IsExpired_AtTtl(entry, t) ==
    IF "timestamp" \notin DOMAIN entry \/ "ttl" \notin DOMAIN entry THEN TRUE
    ELSE t - entry.timestamp >= entry.ttl

\* JiraCache._is_expired at time t
IsExpired(entry, t) ==
    IF "timestamp" \notin DOMAIN entry \/ "ttl" \notin DOMAIN entry THEN TRUE
    ELSE t - entry.timestamp > entry.ttl

\* JiraCache._get_entry
GetEntry(d, c, key) ==
    IF c \notin DOMAIN d THEN PyNone
    ELSE IF key = NoneKey THEN d[c]
    ELSE IF key \notin DOMAIN d[c] THEN PyNone
    ELSE d[c][key]

\* JiraCache.get at time t
JiraCacheGet(d, t, c, key, force) ==
    IF force THEN PyNone
    ELSE LET entry == GetEntry(d, c, key)
         IN IF IsNone(entry) THEN PyNone
            ELSE IF IsExpired(entry, t) THEN PyNone
            ELSE IF "data" \in DOMAIN entry THEN entry.data ELSE PyNone

\* JiraCache.set at time t, before _save_cache
JiraCacheSet(d, t, c, data, ttl, key) ==
    IF key = NoneKey THEN DictSet(d, c, Entry(t, ttl, data))
    ELSE DictSet(d, c, DictSet(IF c \in DOMAIN d THEN d[c] ELSE EmptyDict, key, Entry(t, ttl, data)))

\* JiraCache.is_cached
JiraCacheIsCached(d, t, c, key) ==
    LET entry == GetEntry(d, c, key)
    IN IF IsNone(entry) THEN FALSE ELSE ~IsExpired(entry, t)

\* JiraCache.get_age
JiraCacheGetAge(d, t, c, key) ==
    LET entry == GetEntry(d, c, key)
    IN IF IsNone(entry) \/ "timestamp" \notin DOMAIN entry THEN PyStr(<<"never cached">>)
       ELSE LET age_seconds == t - entry.timestamp
            IN IF age_seconds < Minute THEN PyStr(<<"just now">>)
               ELSE IF age_seconds < Hour THEN PyStr(<<age_seconds \div Minute, "m ago">>)
               ELSE IF age_seconds < Day THEN PyStr(<<age_seconds \div Hour, "h ago">>)
               ELSE PyStr(<<age_seconds \div Day, "d ago">>)

\* JiraCache.invalidate, before _save_cache
JiraCacheInvalidate(d, c, key) ==
    IF key = NoneKey
    THEN IF c \in DOMAIN d THEN DictDel(d, c) ELSE d
    ELSE IF c \in DOMAIN d /\ key \in DOMAIN d[c] THEN DictSet(d, c, DictDel(d[c], key)) ELSE d

\* JiraCache._save_cache: all_cache[self.jira_url] = self.cache, written to the file.
SaveCache(file, d) == DictSet(file, jira_url, d)

\* ---- the two stores, given the same calls ------------------------------------

\* A call is made at time now; sq and jc are what JiraSQLiteCache and
\* JiraCache return.
Called(op, c, key, force, data, ttl, sq, jc) ==
    /\ last.n < MaxStoreOps
    /\ last' = [n |-> last.n + 1, op |-> op, category |-> c, key |-> key, force |-> force,
                data |-> data, ttl |-> ttl, at |-> now, sq |-> sq, jc |-> jc]
    /\ prev' = last

\* set(category, data, ttl, key); JiraCache.set ends with _save_cache().
Set(c, key, data, ttl) ==
    /\ metadata' = SQLiteSet(metadata, now, c, data, ttl, key)
    /\ cache' = JiraCacheSet(cache, now, c, data, ttl, key)
    /\ cache_file' = SaveCache(cache_file, cache')
    /\ Called("set", c, key, FALSE, data, ttl, PyNone, PyNone)
    /\ UNCHANGED <<notstore, dbvars, now>>

\* Get that deletes the entry it finds expired.
Get_PurgesExpired(c, key, force) ==
    /\ metadata' = IF SQLiteGet(metadata, now, c, key, force) = PyNone
                   THEN SQLiteInvalidate(metadata, c, key) ELSE metadata
    /\ Called("get", c, key, force, PyNone, 0,
              SQLiteGet(metadata, now, c, key, force), JiraCacheGet(cache, now, c, key, force))
    /\ UNCHANGED <<notstore, dbvars, cache, cache_file, now>>

\* get(category, key, force_refresh)
Get(c, key, force) ==
    /\ Called("get", c, key, force, PyNone, 0,
              SQLiteGet(metadata, now, c, key, force), JiraCacheGet(cache, now, c, key, force))
    /\ UNCHANGED <<notstore, dbvars, metadata, cache, cache_file, now>>

\* is_cached(category, key)
IsCached(c, key) ==
    /\ Called("is_cached", c, key, FALSE, PyNone, 0,
              PyBool(SQLiteIsCached(metadata, now, c, key)), PyBool(JiraCacheIsCached(cache, now, c, key)))
    /\ UNCHANGED <<notstore, dbvars, metadata, cache, cache_file, now>>

\* get_age(category, key)
GetAge(c, key) ==
    /\ Called("get_age", c, key, FALSE, PyNone, 0,
              SQLiteGetAge(metadata, now, c, key), JiraCacheGetAge(cache, now, c, key))
    /\ UNCHANGED <<notstore, dbvars, metadata, cache, cache_file, now>>

\* invalidate(category, key); JiraCache.invalidate ends with _save_cache().
Invalidate(c, key) ==
    /\ metadata' = SQLiteInvalidate(metadata, c, key)
    /\ cache' = JiraCacheInvalidate(cache, c, key)
    /\ cache_file' = SaveCache(cache_file, cache')
    /\ Called("invalidate", c, key, FALSE, PyNone, 0, PyNone, PyNone)
    /\ UNCHANGED <<notstore, dbvars, now>>

\* clear_all(): DELETE FROM metadata, tickets, users and query_results;
\* self.cache = {} and _save_cache().
ClearAll ==
    /\ metadata' = SQLiteClearAll(metadata)
    /\ db_tickets' = SQLiteClearAll(db_tickets)
    /\ db_users' = SQLiteClearAll(db_users)
    /\ db_query_results' = SQLiteClearAll(db_query_results)
    /\ cache' = EmptyDict
    /\ cache_file' = SaveCache(cache_file, cache')
    /\ Called("clear_all", 0, NoneKey, FALSE, PyNone, 0, PyNone, PyNone)
    /\ UNCHANGED <<notstore, now>>

\* A second passes.
Tick ==
    /\ now < MaxTime
    /\ now' = now + 1
    /\ UNCHANGED <<notstore, dbvars, metadata, cache, cache_file, last, prev>>

StoreNext ==
    \/ \E c \in Categories, key \in Subkeys, data \in Payloads, ttl \in Ttls : Set(c, key, data, ttl)
    \/ \E c \in Categories, key \in Subkeys, force \in BOOLEAN : Get(c, key, force)
    \/ \E c \in Categories, key \in Subkeys : IsCached(c, key)
    \/ \E c \in Categories, key \in Subkeys : GetAge(c, key)
    \/ \E c \in Categories, key \in Subkeys : Invalidate(c, key)
    \/ ClearAll
    \/ Tick

\* A JiraSQLiteCache and a JiraCache, both new, given the same sequence of calls.
StoreSpec == Init /\ [][StoreNext]_vars

\* ---- JiraSQLiteCache: tables tickets, users and query_results -------------

DbKeys == {"A-1", "A-2"}                    \* ticket keys
Stamps == {<<1>>, <<1, 0>>, <<2>>}          \* the 'updated' strings "1", "10", "2", as their characters
AccountIds == {"u1", "u2"}
UserDict == [type |-> "user", emailAddress |-> "a@x", displayName |-> "Ann"]
Jqls == {"project = A", "project = B"}
KeyLists == {<<>>, <<"A-1">>}               \* the ticket keys a query returned
QueryTtls == {0, ttl_seconds_default}
PyInt(n) == [type |-> "int", val |-> n]
KeyList(s) == [type |-> "keys", val |-> s]
NoMethod == [type |-> "AttributeError", val |-> 0]   \* JiraCache has no such method

\* StrLess that also holds for two equal str.
StrLess_OrEqual(a, b) ==
    a = b \/ \E i \in 1..Len(b) :
        /\ i <= Len(a) + 1
        /\ \A j \in 1..(i - 1) : a[j] = b[j]
        /\ (i = Len(a) + 1 \/ a[i] < b[i])

\* a < b for two str: the order of the first character that differs, a
\* proper prefix being less.
StrLess(a, b) ==
    \E i \in 1..Len(b) :
        /\ i <= Len(a) + 1
        /\ \A j \in 1..(i - 1) : a[j] = b[j]
        /\ (i = Len(a) + 1 \/ a[i] < b[i])

\* fresh_tickets of get_stale_ticket_keys: the dicts over DbKeys, each as the
\* sequence of its items in insertion order.
FreshTickets ==
    {<<>>} \cup {<<<<k, u>>>> : k \in DbKeys, u \in Stamps}
           \cup {<<<<k, u1>>, <<CHOOSE k2 \in DbKeys : k2 # k, u2>>>> : k \in DbKeys, u1 \in Stamps, u2 \in Stamps}

\* hashlib.sha256(jql.encode()).hexdigest(): one digest per query text.
Sha256(jql) == <<"sha256", jql>>

\* json.dumps(ticket_keys) of a list of str, and json.loads of that text.
JsonDumps(v) == [type |-> "json", val |-> v]
JsonLoads(text) == text.val

\* SELECT ... FROM tickets WHERE key = ?
SelectTicket(rows, key) == {r \in rows : r.key = key}

\* JiraSQLiteCache.get_ticket
SQLiteGetTicket(rows, key) ==
    LET row == SelectTicket(rows, key)
    IN IF row # {} THEN Unpickle((CHOOSE r \in row : TRUE).data) ELSE PyNone

\* JiraSQLiteCache.set_ticket at time t: INSERT OR REPLACE INTO tickets, key
\* the primary key.
SQLiteSetTicket(rows, t, key, data, updated) ==
    (rows \ SelectTicket(rows, key))
        \cup {[key |-> key, updated |-> updated, data |-> Pickle(data), cached_at |-> t]}

\* JiraSQLiteCache.set_user at time t: INSERT OR REPLACE INTO users,
\* account_id the primary key.
SQLiteSetUser(rows, t, account_id, user) ==
    {r \in rows : r.account_id # account_id}
        \cup {[account_id |-> account_id, email |-> user.emailAddress,
               display_name |-> user.displayName, data |-> Pickle(user), cached_at |-> t]}

\* JiraSQLiteCache.get_query_result at time t
SQLiteGetQueryResult(rows, t, jql, ttl_seconds) ==
    LET query_hash == Sha256(jql)
        row == {r \in rows : r.query_hash = query_hash}
    IN IF row = {} THEN PyNone
       ELSE LET age == t - (CHOOSE r \in row : TRUE).cached_at
            IN IF age > ttl_seconds THEN PyNone
               ELSE KeyList(JsonLoads((CHOOSE r \in row : TRUE).ticket_keys))

\* JiraSQLiteCache.set_query_result at time t: INSERT OR REPLACE INTO
\* query_results, query_hash the primary key.
SQLiteSetQueryResult(rows, t, jql, ticket_keys) ==
    LET query_hash == Sha256(jql)
    IN {r \in rows : r.query_hash # query_hash}
           \cup {[query_hash |-> query_hash, jql |-> jql,
                  ticket_keys |-> JsonDumps(ticket_keys), cached_at |-> t]}

\* SELECT COUNT(*) as count FROM a table
Count(rows) == Cardinality(rows)

\* JiraSQLiteCache.get_stale_ticket_keys: for key, api_updated in
\* fresh_tickets.items(), the keys with no row or row['updated'] < api_updated.
RECURSIVE SQLiteGetStaleTicketKeys(_, _)
SQLiteGetStaleTicketKeys(rows, fresh_tickets) ==
    IF fresh_tickets = <<>> THEN <<>>
    ELSE LET key == Head(fresh_tickets)[1]
             api_updated == Head(fresh_tickets)[2]
             row == SelectTicket(rows, key)
         IN (IF row = {} \/ StrLess((CHOOSE r \in row : TRUE).updated, api_updated)
             THEN <<key>> ELSE <<>>)
                \o SQLiteGetStaleTicketKeys(rows, Tail(fresh_tickets))

\* ---- calls on the tables ---------------------------------------------------
\* JiraCache has none of these methods.

\* set_ticket(key, ticket, updated)
SetTicket(key, data, updated) ==
    /\ db_tickets' = SQLiteSetTicket(db_tickets, now, key, data, updated)
    /\ Called("set_ticket", 0, key, FALSE, [ticket |-> data, updated |-> updated], 0, PyNone, NoMethod)
    /\ UNCHANGED <<notstore, metadata, cache, cache_file, now, db_users, db_query_results>>

\* get_ticket(key)
GetTicket(key) ==
    /\ Called("get_ticket", 0, key, FALSE, PyNone, 0, SQLiteGetTicket(db_tickets, key), NoMethod)
    /\ UNCHANGED <<notstore, metadata, cache, cache_file, now, dbvars>>

\* set_user(account_id, user)
SetUser(account_id, user) ==
    /\ db_users' = SQLiteSetUser(db_users, now, account_id, user)
    /\ Called("set_user", 0, account_id, FALSE, user, 0, PyNone, NoMethod)
    /\ UNCHANGED <<notstore, metadata, cache, cache_file, now, db_tickets, db_query_results>>

\* set_query_result(jql, ticket_keys)
SetQueryResult(jql, ticket_keys) ==
    /\ db_query_results' = SQLiteSetQueryResult(db_query_results, now, jql, ticket_keys)
    /\ Called("set_query_result", 0, jql, FALSE, KeyList(ticket_keys), 0, PyNone, NoMethod)
    /\ UNCHANGED <<notstore, metadata, cache, cache_file, now, db_tickets, db_users>>

\* get_query_result(jql, ttl_seconds)
GetQueryResult(jql, ttl_seconds) ==
    /\ Called("get_query_result", 0, jql, FALSE, PyNone, ttl_seconds,
              SQLiteGetQueryResult(db_query_results, now, jql, ttl_seconds), NoMethod)
    /\ UNCHANGED <<notstore, metadata, cache, cache_file, now, dbvars>>

\* get_stale_ticket_keys(fresh_tickets)
GetStaleTicketKeys(fresh_tickets) ==
    /\ Called("get_stale_ticket_keys", 0, NoneKey, FALSE, KeyList(fresh_tickets), 0,
              KeyList(SQLiteGetStaleTicketKeys(db_tickets, fresh_tickets)), NoMethod)
    /\ UNCHANGED <<notstore, metadata, cache, cache_file, now, dbvars>>

\* clear_tickets that leaves the query results.
ClearTickets_KeepsQueries ==
    /\ db_tickets' = {}
    /\ Called("clear_tickets", 0, NoneKey, FALSE, PyNone, 0, PyInt(Count(db_tickets)), NoMethod)
    /\ UNCHANGED <<notstore, metadata, cache, cache_file, now, db_users, db_query_results>>

\* clear_tickets(): the count, DELETE FROM tickets, DELETE FROM query_results.
ClearTickets ==
    /\ db_tickets' = {}
    /\ db_query_results' = {}
    /\ Called("clear_tickets", 0, NoneKey, FALSE, PyNone, 0, PyInt(Count(db_tickets)), NoMethod)
    /\ UNCHANGED <<notstore, metadata, cache, cache_file, now, db_users>>

\* clear_users that counts the rows after deleting them.
ClearUsers_CountsAfter ==
    /\ db_users' = {}
    /\ Called("clear_users", 0, NoneKey, FALSE, PyNone, 0, PyInt(Count(db_users')), NoMethod)
    /\ UNCHANGED <<notstore, metadata, cache, cache_file, now, db_tickets, db_query_results>>

\* clear_users(): the count, DELETE FROM users.
ClearUsers ==
    /\ db_users' = {}
    /\ Called("clear_users", 0, NoneKey, FALSE, PyNone, 0, PyInt(Count(db_users)), NoMethod)
    /\ UNCHANGED <<notstore, metadata, cache, cache_file, now, db_tickets, db_query_results>>

\* A second passes between two calls on the tables.
TableTick ==
    /\ now < MaxTableTime
    /\ Tick

TableNext ==
    \/ \E key \in DbKeys, updated \in Stamps : SetTicket(key, Payload(1), updated)
    \/ \E key \in DbKeys : GetTicket(key)
    \/ \E account_id \in AccountIds : SetUser(account_id, UserDict)
    \/ \E jql \in Jqls, ticket_keys \in KeyLists : SetQueryResult(jql, ticket_keys)
    \/ \E jql \in Jqls, ttl_seconds \in QueryTtls : GetQueryResult(jql, ttl_seconds)
    \/ \E fresh_tickets \in FreshTickets : GetStaleTicketKeys(fresh_tickets)
    \/ ClearTickets
    \/ ClearUsers
    \/ ClearAll
    \/ Set(1, NoneKey, Payload(1), MaxTtl)
    \/ TableTick

\* One JiraSQLiteCache, new, given calls on its four tables.
TableSpec == Init /\ [][TableNext]_vars

\* ---- store instances on one cache directory -------------------------------

\* The payloads a cache dict holds, in entries and in keyed entries.
EntryData(d) ==
    {d[c].data : c \in {x \in DOMAIN d : "data" \in DOMAIN d[x]}}
        \cup UNION {{d[c][k].data : k \in DOMAIN d[c]} : c \in {x \in DOMAIN d : "data" \notin DOMAIN d[x]}}

\* json.dump(all_cache, f) goes through: every payload can be encoded.
Serializable(d) == \A v \in EntryData(d) : v.type # "object"

\* JiraCache._load_cache for jira_url u: the dict loaded, the file it leaves,
\* and whether an exception escapes.
LoadCache(file, u) ==
    CASE file.state = "missing" -> [raised |-> FALSE, cache |-> EmptyDict, file |-> file]
      [] file.state = "json" ->
            [raised |-> FALSE,
             cache |-> LET all_cache == JsonLoads(file.val)
                       IN IF u \in DOMAIN all_cache THEN all_cache[u] ELSE EmptyDict,
             file |-> file]
      [] file.state = "corrupt" -> [raised |-> FALSE, cache |-> EmptyDict, file |-> NoFile]
      [] file.state = "not_utf8" -> [raised |-> TRUE, cache |-> EmptyDict, file |-> file]

\* JiraCache._save_cache for jira_url u and self.cache d: whether an exception
\* escapes, whether the file took the new text, and the file it leaves.
\* open(..., 'w') empties the file before json.dump writes; IOError and
\* OSError are swallowed, the TypeError of json.dump is not.
SaveOutcomes(file, u, d, fail) ==
    LET all_cache == IF file.state = "json" THEN JsonLoads(file.val) ELSE EmptyDict
        written == [state |-> "json", val |-> JsonDumps(DictSet(all_cache, u, d))]
    IN IF fail = "denied" THEN {[raised |-> FALSE, ok |-> FALSE, file |-> file]}
       ELSE IF ~Serializable(d) THEN {[raised |-> TRUE, ok |-> FALSE, file |-> Truncated]}
       ELSE {[raised |-> FALSE, ok |-> TRUE, file |-> written]}

\* JiraSQLiteCache._init_db: CREATE TABLE IF NOT EXISTS on the database file.
InitDb(db) ==
    CASE db.state = "missing" -> [raised |-> FALSE, db |-> [db EXCEPT !.state = "db"]]
      [] db.state = "db" -> [raised |-> FALSE, db |-> db]
      [] db.state = "corrupt" -> [raised |-> TRUE, db |-> db]

\* What a call returns: None, or the exception that escapes it.
Outcome(raised) == IF raised THEN Raised ELSE PyNone

\* The call op made on the two instances for address u.
DiskCalled(op, u, c, key, data, fail, sq, jc) ==
    /\ dlast.n < MaxDiskOps
    /\ dlast' = [n |-> dlast.n + 1, op |-> op, url |-> u, category |-> c, key |-> key, data |-> data,
                 fail |-> fail, sq |-> IF inst[u].sq \/ op = "open" THEN sq ELSE NoInstance,
                 jc |-> IF inst[u].jc \/ op = "open" THEN jc ELSE NoInstance]

\* JiraCache(u) and JiraSQLiteCache(u, cache_dir)
Open(u) ==
    /\ ~inst[u].open
    /\ LET loaded == LoadCache(json_file, u)
           init == InitDb(db_file)
       IN /\ json_file' = loaded.file
          /\ db_file' = init.db
          /\ inst' = [inst EXCEPT ![u] = [open |-> TRUE, jc |-> ~loaded.raised,
                                          sq |-> ~init.raised, cache |-> loaded.cache,
                                          saved |-> DOMAIN loaded.cache]]
          /\ DiskCalled("open", u, 0, NoneKey, PyNone, "none", Outcome(init.raised), Outcome(loaded.raised))
    /\ UNCHANGED notdisk

\* The instances for address u are dropped.
Close(u) ==
    /\ inst[u].open
    /\ inst' = [inst EXCEPT ![u].open = FALSE]
    /\ DiskCalled("close", u, 0, NoneKey, PyNone, "none", PyNone, PyNone)
    /\ UNCHANGED <<notdisk, json_file, db_file>>

\* The JiraCache of address u changes self.cache to d and calls _save_cache:
\* with every category of d written when the file takes the new text, and
\* the entry of category c (0: none) no longer the written one otherwise.
JiraCacheWrite(u, d, c, out) ==
    IF inst[u].jc
    THEN /\ inst' = [inst EXCEPT ![u].cache = d,
                                 ![u].saved = IF out.ok THEN DOMAIN d
                                              ELSE (inst[u].saved \cap DOMAIN d) \ {c}]
         /\ json_file' = out.file
    ELSE UNCHANGED <<inst, json_file>>

\* The JiraSQLiteCache of address u executes its statements and commits: the
\* tables become m and t, or the commit fails and the exception escapes.
SQLiteWrite(u, m, t, fail) ==
    IF inst[u].sq /\ fail = "none"
    THEN db_file' = [db_file EXCEPT !.metadata = m, !.tickets = t]
    ELSE UNCHANGED db_file

\* set(category, data, ttl, key) on the instances of address u
DiskSet(u, c, key, data, ttl, fail) ==
    /\ inst[u].open
    /\ LET d == JiraCacheSet(inst[u].cache, now, c, data, ttl, key)
       IN \E saved \in SaveOutcomes(json_file, u, d, fail) :
             /\ JiraCacheWrite(u, d, c, saved)
             /\ SQLiteWrite(u, SQLiteSet(db_file.metadata, now, c, data, ttl, key), db_file.tickets, fail)
             /\ DiskCalled("set", u, c, key, data, fail, Outcome(fail # "none"), Outcome(saved.raised))
    /\ UNCHANGED notdisk

\* get(category, key) on the instances of address u
DiskGet(u, c, key) ==
    /\ inst[u].open
    /\ DiskCalled("get", u, c, key, PyNone, "none",
                  SQLiteGet(db_file.metadata, now, c, key, FALSE),
                  JiraCacheGet(inst[u].cache, now, c, key, FALSE))
    /\ UNCHANGED <<notdisk, inst, json_file, db_file>>

\* invalidate(category, key) on the instances of address u
DiskInvalidate(u, c, key) ==
    /\ inst[u].open
    /\ LET d == JiraCacheInvalidate(inst[u].cache, c, key)
       IN \E saved \in SaveOutcomes(json_file, u, d, "none") :
             /\ JiraCacheWrite(u, d, c, saved)
             /\ SQLiteWrite(u, SQLiteInvalidate(db_file.metadata, c, key), db_file.tickets, "none")
             /\ DiskCalled("invalidate", u, c, key, PyNone, "none", PyNone, Outcome(saved.raised))
    /\ UNCHANGED notdisk

\* clear_all() on the instances of address u
DiskClearAll(u) ==
    /\ inst[u].open
    /\ \E saved \in SaveOutcomes(json_file, u, EmptyDict, "none") :
          /\ JiraCacheWrite(u, EmptyDict, 0, saved)
          /\ SQLiteWrite(u, SQLiteClearAll(db_file.metadata), SQLiteClearAll(db_file.tickets), "none")
          /\ DiskCalled("clear_all", u, 0, NoneKey, PyNone, "none", PyNone, Outcome(saved.raised))
    /\ UNCHANGED notdisk

\* set_ticket(key, ticket, updated) on the JiraSQLiteCache of address u
DiskSetTicket(u, key, data, updated) ==
    /\ inst[u].open
    /\ SQLiteWrite(u, db_file.metadata, SQLiteSetTicket(db_file.tickets, now, key, data, updated), "none")
    /\ DiskCalled("set_ticket", u, 0, key, data, "none", PyNone, NoMethod)
    /\ UNCHANGED <<notdisk, inst, json_file>>

\* clear_tickets() on the JiraSQLiteCache of address u
DiskClearTickets(u) ==
    /\ inst[u].open
    /\ SQLiteWrite(u, db_file.metadata, {}, "none")
    /\ DiskCalled("clear_tickets", u, 0, NoneKey, PyNone, "none", PyInt(Count(db_file.tickets)), NoMethod)
    /\ UNCHANGED <<notdisk, inst, json_file>>

DiskNext ==
    \/ \E u \in Urls : Open(u)
    \/ \E u \in Urls : Close(u)
    \/ \E u \in Urls, c \in DiskCategories, data \in DiskPayloads, fail \in DiskFailures :
          DiskSet(u, c, NoneKey, data, MaxTtl, fail)
    \/ \E u \in Urls, c \in DiskCategories : DiskGet(u, c, NoneKey)
    \/ \E u \in Urls, c \in DiskCategories : DiskInvalidate(u, c, NoneKey)
    \/ \E u \in Urls : DiskClearAll(u)
    \/ \E u \in Urls : DiskSetTicket(u, "A-1", Payload(1), <<1>>)
    \/ \E u \in Urls : DiskClearTickets(u)

\* Instances opened and closed on one cache directory.
DiskInit ==
    /\ ticket_cache = <<>>
    /\ refresh_needed = FALSE
    /\ snapshot0 = <<>>
    /\ Quiescent
    /\ TicketQuiescent
    /\ StoreQuiescent
    /\ LateQuiescent
    /\ DiskFound

DiskSpec == DiskInit /\ [][DiskNext]_vars

\* ---- JiraSQLiteCache used by several threads --------------------------------

\* The 'updated' of a ticket dict: a str, or None (JSON null).
Stamp(x) == [type |-> "str", val |-> x]
NullStamp == [type |-> "None", val |-> <<>>]

\* Ticket dicts given to set_many_tickets: {'key': key, 'fields': {'updated':
\* updated}}, and one without 'key'.
Record(key, updated) == [has_key |-> TRUE, key |-> key, updated |-> updated]
NoKeyRecord == [has_key |-> FALSE, key |-> "", updated |-> Stamp(<<1>>)]
Records == {Record(k, Stamp(<<1>>)) : k \in DbKeys} \cup {NoKeyRecord, Record("A-2", NullStamp)}
Batches == {<<>>} \cup {b \in {<<x, y>> : x \in Records, y \in Records} : b[1] # b[2]}

\* The dict stored by call n under key: the calls' payloads differ.
CallTicket(n, key) == [type |-> "ticket", val |-> <<n, key>>]

\* What a statement of thread t reads: its own transaction's version of the
\* table, else the committed one.
View(t) == IF conn[t].in_transaction THEN conn[t].tickets ELSE db_tickets

\* The database file takes one writing transaction at a time.
Writable(t) == \A u \in ConnThreads \ {t} : ~conn[u].in_transaction

\* cursor.executemany(INSERT OR REPLACE ..., values) of call n: the rows go in
\* one by one; a NULL for 'updated TEXT NOT NULL' raises IntegrityError and
\* leaves the rows before it in the transaction.
RECURSIVE ExecuteMany(_, _, _)
ExecuteMany(rows, n, values) ==
    IF values = <<>> THEN [rows |-> rows, raised |-> FALSE]
    ELSE IF Head(values).updated.type = "None" THEN [rows |-> rows, raised |-> TRUE]
    ELSE ExecuteMany(SQLiteSetTicket(rows, 0, Head(values).key, CallTicket(n, Head(values).key),
                                     Head(values).updated.val),
                     n, Tail(values))

\* A thread calls a method.
ConnCall(t, op, tickets, keys, pc) ==
    /\ kpc[t] = "idle"
    /\ Len(khist) < MaxConnCalls
    /\ khist' = Append(khist, [op |-> op, thread |-> t, tickets |-> tickets, keys |-> keys,
                               ended |-> "no", ret |-> {}, count |-> 0, removed |-> 0])
    /\ klocal' = [klocal EXCEPT ![t] = [NoLocals EXCEPT !.op = op, !.n = Len(khist) + 1,
                                                       !.tickets = tickets, !.keys = keys]]
    /\ kpc' = [kpc EXCEPT ![t] = pc]
    /\ UNCHANGED <<notconn, dbvars, conn>>

\* The method returns, or an exception leaves it.
ConnEnd(t, how, ret) ==
    /\ khist' = [khist EXCEPT ![klocal[t].n] =
                    [@ EXCEPT !.ended = how, !.ret = ret,
                              !.count = klocal[t].count, !.removed = klocal[t].removed]]
    /\ kpc' = [kpc EXCEPT ![t] = "idle"]

\* set_many_tickets(tickets)
SetManyTickets(t, tickets) == ConnCall(t, "set_many_tickets", tickets, {}, "smt_values")

\* "if not tickets: return"; the loop that builds values: ticket['key'] raises
\* KeyError before any statement is executed.
SmtValues(t) ==
    /\ kpc[t] = "smt_values"
    /\ IF klocal[t].tickets = <<>>
       THEN ConnEnd(t, "returned", {})
       ELSE IF \E i \in 1..Len(klocal[t].tickets) : ~klocal[t].tickets[i].has_key
       THEN ConnEnd(t, "KeyError", {})
       ELSE kpc' = [kpc EXCEPT ![t] = "smt_executemany"] /\ UNCHANGED khist
    /\ UNCHANGED <<notconn, dbvars, conn, klocal>>

\* cursor.executemany(...): the connection begins a transaction if it is in
\* none; an exception leaves the method with the transaction open.
SmtExecuteMany(t) ==
    /\ kpc[t] = "smt_executemany"
    /\ Writable(t)
    /\ LET out == ExecuteMany(View(t), klocal[t].n, klocal[t].tickets)
       IN /\ conn' = [conn EXCEPT ![t] = [in_transaction |-> TRUE, tickets |-> out.rows]]
          /\ IF out.raised
             THEN ConnEnd(t, "IntegrityError", {})
             ELSE kpc' = [kpc EXCEPT ![t] = "smt_commit"] /\ UNCHANGED khist
    /\ UNCHANGED <<notconn, dbvars, klocal>>

\* conn.commit(): the transaction's version of the table becomes the
\* committed one.
Commit(t) ==
    /\ db_tickets' = View(t)
    /\ conn' = [conn EXCEPT ![t] = NoTransaction]

SmtCommit(t) ==
    /\ kpc[t] = "smt_commit"
    /\ Commit(t)
    /\ ConnEnd(t, "returned", {})
    /\ UNCHANGED <<notconn, db_users, db_query_results, klocal>>

\* set_ticket(key, ticket, updated)
ConnSetTicket(t, key) == ConnCall(t, "set_ticket", <<>>, {key}, "st_execute")

\* cursor.execute(INSERT OR REPLACE INTO tickets ...)
StExecute(t) ==
    /\ kpc[t] = "st_execute"
    /\ Writable(t)
    /\ LET key == CHOOSE k \in klocal[t].keys : TRUE
       IN conn' = [conn EXCEPT ![t] = [in_transaction |-> TRUE,
                      tickets |-> SQLiteSetTicket(View(t), 0, key, CallTicket(klocal[t].n, key), <<1>>)]]
    /\ kpc' = [kpc EXCEPT ![t] = "st_commit"]
    /\ UNCHANGED <<notconn, dbvars, klocal, khist>>

StCommit(t) ==
    /\ kpc[t] = "st_commit"
    /\ Commit(t)
    /\ ConnEnd(t, "returned", {})
    /\ UNCHANGED <<notconn, db_users, db_query_results, klocal>>

\* A statement that writes waits for the other connection's transaction; after
\* timeout=10.0 seconds it raises OperationalError (database is locked).
Busy(t) ==
    /\ kpc[t] \in {"smt_executemany", "st_execute", "ct_delete"}
    /\ ~Writable(t)
    /\ ConnEnd(t, "OperationalError", {})
    /\ UNCHANGED <<notconn, dbvars, conn, klocal>>

\* get_all_ticket_keys(): SELECT key FROM tickets
GetAllTicketKeys(t) ==
    /\ ConnCall(t, "get_all_ticket_keys", <<>>, {}, "gk_select")

GkSelect(t) ==
    /\ kpc[t] = "gk_select"
    /\ ConnEnd(t, "returned", {[key |-> r.key, data |-> r.data] : r \in View(t)})
    /\ UNCHANGED <<notconn, dbvars, conn, klocal>>

\* get_many_tickets(keys): "if not keys: return {}"; SELECT key, data FROM
\* tickets WHERE key IN (keys)
GetManyTickets(t, keys) ==
    /\ ConnCall(t, "get_many_tickets", <<>>, keys, "gm_select")

GmSelect(t) ==
    /\ kpc[t] = "gm_select"
    /\ ConnEnd(t, "returned", {[key |-> r.key, data |-> r.data] : r \in {q \in View(t) : q.key \in klocal[t].keys}})
    /\ UNCHANGED <<notconn, dbvars, conn, klocal>>

\* clear_tickets()
ConnClearTickets(t) == ConnCall(t, "clear_tickets", <<>>, {}, "ct_count")

\* SELECT COUNT(*) as count FROM tickets; count = cursor.fetchone()['count']
CtCount(t) ==
    /\ kpc[t] = "ct_count"
    /\ klocal' = [klocal EXCEPT ![t].count = Count(View(t))]
    /\ kpc' = [kpc EXCEPT ![t] = "ct_delete"]
    /\ UNCHANGED <<notconn, dbvars, conn, khist>>

\* DELETE FROM tickets; DELETE FROM query_results.  removed: the rows the
\* first statement deleted.
CtDelete(t) ==
    /\ kpc[t] = "ct_delete"
    /\ Writable(t)
    /\ klocal' = [klocal EXCEPT ![t].removed = Count(View(t))]
    /\ conn' = [conn EXCEPT ![t] = [in_transaction |-> TRUE, tickets |-> {}]]
    /\ kpc' = [kpc EXCEPT ![t] = "ct_commit"]
    /\ UNCHANGED <<notconn, dbvars, khist>>

\* conn.commit(); return count
CtCommit(t) ==
    /\ kpc[t] = "ct_commit"
    /\ Commit(t)
    /\ db_query_results' = {}
    /\ ConnEnd(t, "returned", {})
    /\ UNCHANGED <<notconn, db_users, klocal>>

ConnNext ==
    \/ \E t \in ConnThreads, tickets \in Batches : SetManyTickets(t, tickets)
    \/ \E t \in ConnThreads : SmtValues(t) \/ SmtExecuteMany(t) \/ SmtCommit(t)
    \/ \E t \in ConnThreads, key \in DbKeys : ConnSetTicket(t, key)
    \/ \E t \in ConnThreads : StExecute(t) \/ StCommit(t)
    \/ \E t \in ConnThreads : GetAllTicketKeys(t) \/ GkSelect(t)
    \/ \E t \in ConnThreads : GetManyTickets(t, DbKeys) \/ GmSelect(t)
    \/ \E t \in ConnThreads : ConnClearTickets(t) \/ CtCount(t) \/ CtDelete(t) \/ CtCommit(t)
    \/ \E t \in ConnThreads : Busy(t)

\* One JiraSQLiteCache object used by several threads.
ConnSpec == Init /\ [][ConnNext]_vars

\* ---- JiraTUI: bulk pre-fetch of transitions ---------------------------------

\* The tickets of the list on screen, by key.
LoadedKeys == 1..NumLoaded

\* An executor after "for ticket in tickets: executor.submit(self._cache_transitions,
\* ticket_key)": one task per ticket, none taken by a worker yet.
Submitted == [k \in LoadedKeys |-> "pending"]

\* The fetches one executor, and all of them, have in flight.
TasksRunning(e) == {k \in LoadedKeys : e[k] = "running"}
InFlight == {<<p, k>> \in (1..Len(executors)) \X LoadedKeys : executors[p][k] = "running"}

\* threading.Thread(target=self._load_transitions_background, args=(tickets,)).start():
\* a new executor takes the tasks; shutdown(wait=False) leaves them to its workers.
\* With the flag set the loop breaks before the first submit.
LoadTransitionsBackground ==
    /\ Len(executors) < MaxLoaders
    /\ executors' = Append(executors, IF shutdown_flag THEN [k \in LoadedKeys |-> "skipped"] ELSE Submitted)

\* _curses_main: "if tickets:" the first pre-fetch is started.
InitialLoad ==
    /\ executors = <<>>
    /\ LoadTransitionsBackground
    /\ UNCHANGED <<notpool, tui_transitions_cache, shutdown_flag>>

\* _curses_main, refresh: the list is fetched again; "if all_tickets:" a
\* pre-fetch is started.
Refresh ==
    /\ executors # <<>>
    /\ LoadTransitionsBackground
    /\ UNCHANGED <<notpool, tui_transitions_cache, shutdown_flag>>

\* _curses_main, new query: self.transitions_cache.clear(); a pre-fetch is started.
NewQuery ==
    /\ executors # <<>>
    /\ tui_transitions_cache' = {}
    /\ LoadTransitionsBackground
    /\ UNCHANGED <<notpool, shutdown_flag>>

\* A worker of executor p, of which there are at most max_workers, takes the
\* next task: _cache_transitions returns at once when the flag is set, else it
\* calls _fetch_transitions.
CacheTransitionsStart(p) ==
    /\ Cardinality(TasksRunning(executors[p])) < max_workers
    /\ \E k \in LoadedKeys :
          /\ executors[p][k] = "pending"
          /\ \A j \in 1..(k - 1) : executors[p][j] # "pending"
          /\ executors' = [executors EXCEPT ![p][k] = IF shutdown_flag THEN "skipped" ELSE "running"]
    /\ UNCHANGED <<notpool, tui_transitions_cache, shutdown_flag>>

\* _fetch_transitions returns (the list, or [] on an error);
\* with self.loading_lock: self.transitions_cache[ticket_key] = transitions
CacheTransitionsStore(p, k) ==
    /\ executors[p][k] = "running"
    /\ executors' = [executors EXCEPT ![p][k] = "done"]
    /\ tui_transitions_cache' = tui_transitions_cache \cup {k}
    /\ UNCHANGED <<notpool, shutdown_flag>>

\* _curses_main, quit: self._shutdown_flag = True
Quit ==
    /\ ~shutdown_flag
    /\ shutdown_flag' = TRUE
    /\ UNCHANGED <<notpool, executors, tui_transitions_cache>>

PoolNext ==
    \/ InitialLoad \/ Refresh \/ NewQuery
    \/ \E p \in 1..Len(executors) : CacheTransitionsStart(p)
    \/ \E p \in 1..Len(executors), k \in LoadedKeys : CacheTransitionsStore(p, k)
    \/ Quit

\* The user interface's pre-fetch of transitions from its start.
PoolSpec == Init /\ [][PoolNext]_vars

\* ---- QueryController.get_background_status, element by element --------------

\* self._progress_current and self._progress_total: set in __init__, assigned
\* nowhere else.
progress_current == PyInt(0)
progress_total == PyInt(0)

\* The tuple display is evaluated left to right; each element reads
\* self.is_updating again, with no lock.  First element: self.is_updating.
GbsIsRunning ==
    /\ gpc \in {"idle", "returned"}
    /\ gcalls < MaxStatusCalls
    /\ gcalls' = gcalls + 1
    /\ gret' = [is_running |-> is_updating, current |-> PyNone, total |-> PyNone]
    /\ gpc' = "current"
    /\ UNCHANGED notstatus

\* self._progress_current if self.is_updating else None
GbsCurrent ==
    /\ gpc = "current"
    /\ gret' = [gret EXCEPT !.current = IF is_updating THEN progress_current ELSE PyNone]
    /\ gpc' = "total"
    /\ UNCHANGED <<notstatus, gcalls>>

\* self._progress_total if self.is_updating else None, and the return.
GbsTotal ==
    /\ gpc = "total"
    /\ gret' = [gret EXCEPT !.total = IF is_updating THEN progress_total ELSE PyNone]
    /\ gpc' = "returned"
    /\ UNCHANGED <<notstatus, gcalls>>

\* One thread calling execute_query, its workers, and one thread polling
\* get_background_status.
StatusNext ==
    \/ \E force \in BOOLEAN : ExecuteQuery(1, force)
    \/ CallerStep(1)
    \/ \E w \in Workers : WorkerStep(w)
    \/ GbsIsRunning \/ GbsCurrent \/ GbsTotal

StatusSpec == Init /\ [][StatusNext]_vars

\* ---- JiraCache: several instances for one address --------------------------

\* The subkeys given to these instances (set with the subkey absent is C39's).
TwinKeys == {"", "k"}

\* JiraCache(jira_url): self.cache = self._load_cache()
TwinOpen(i) ==
    /\ ~live[i].open
    /\ LET loaded == LoadCache(json_file, jira_url)
       IN /\ ~loaded.raised
          /\ json_file' = loaded.file
          /\ live' = [live EXCEPT ![i] = [open |-> TRUE, cache |-> loaded.cache, saving |-> FALSE]]
    /\ UNCHANGED <<nottwin, twin_sets>>

\* set(category, data, ttl, key) up to the call of _save_cache: the entry is
\* put into this instance's self.cache.
TwinSet(i, c, key, data) ==
    /\ live[i].open /\ ~live[i].saving
    /\ Len(twin_sets) < MaxTwinSets
    /\ live' = [live EXCEPT ![i].cache = JiraCacheSet(live[i].cache, now, c, data, MaxTtl, key),
                            ![i].saving = TRUE]
    /\ twin_sets' = Append(twin_sets, [inst |-> i, category |-> c, key |-> key, data |-> data])
    /\ UNCHANGED <<nottwin, json_file>>

\* _save_cache at the end of set: the file is read, all_cache[self.jira_url]
\* becomes this instance's self.cache, the file is written.
TwinSave(i) ==
    /\ live[i].saving
    /\ \E saved \in SaveOutcomes(json_file, jira_url, live[i].cache, "none") :
          json_file' = saved.file
    /\ live' = [live EXCEPT ![i].saving = FALSE]
    /\ UNCHANGED <<nottwin, twin_sets>>

TwinNext ==
    \/ \E i \in Twins : TwinOpen(i)
    \/ \E i \in Twins, c \in DiskCategories, key \in TwinKeys, data \in Payloads : TwinSet(i, c, key, data)
    \/ \E i \in Twins : TwinSave(i)

\* The JiraCache instances of one address on a new cache directory.
TwinSpec == Init /\ [][TwinNext]_vars

\* ---- properties ------------------------------------------------------------

\* C1: at most one background refresh worker of the controller is in flight
\* at any time, whatever the interleaving of the execute_query callers.
C1_AtMostOneRefresh == Cardinality({w \in Workers : Running(w)}) <= 1

C3_NoLockDuringFetch ==
    /\ \A w \in Workers : InFetch(w) => update_lock # WorkerThread(w)
    /\ \A w \in Workers : update_lock = WorkerThread(w) => wpc[w] = "swap"
    /\ \A c \in Callers : update_lock = CallerThread(c) => cpc[c] = "copying"

C3_Witness ==
    \E w \in Workers, c \in Callers : InFetch(w) /\ update_lock = CallerThread(c)

\* C4: an execute_query call always runs to its return, also when a fetch
\* never ends: it does not wait for the collaborator.
C4_NeverWaitsForFetch == \A c \in Callers : InCall(c) ~> (cpc[c] = "done")

C4_Witness ==
    \E c \in Callers :
        /\ ccalls[c] = 2 /\ cpc[c] = "done"
        /\ nthreads = 1 /\ InFetch(1)

\* C5: the records execute_query returns, the copy it works on and the
\* snapshot itself are empty or exactly the result of one completed fetch,
\* never a mixture of two fetches; no call ends in an error.
IsOneGeneration(t) ==
    \/ t = <<>>
    \/ t = snapshot0
    \/ \E w \in Workers : wout[w] \in {"ok", "failed"} /\ t = ToDict(all_issues[w])

C7_FirstRunAndForced ==
    \A c \in Callers : cpc[c] = "done" =>
        /\ cache_tickets[c] = <<>> => result[c] = QueryResult(<<>>, "FIRST_RUN", TRUE)
        /\ (cache_tickets[c] # <<>> /\ force_refresh[c]) =>
              result[c] = QueryResult(cache_tickets[c], "UPDATING", TRUE)

C7_Witness ==
    \E c \in Callers, w \in Workers :
        /\ cpc[c] = "done" /\ cstarted[c] = 1
        /\ result[c].status = "FIRST_RUN"
        /\ wout[w] = "raised" /\ wpc[w] = "done"

\* C8: after an execute_query and a get_background_status that reported
\* is_running=false, the caller's next execute_query returns records with
\* status CURRENT or UPDATING, when every fetch returned at least one record.
EveryFetchReturnedRecords ==
    \A w \in Workers : wout[w] # "none" => (wout[w] # "raised" /\ all_issues[w] # <<>>)

C8_SecondQueryHasRecords ==
    \A c \in Callers :
        (cpc[c] = "done" /\ ccalls[c] >= 2 /\ bg_status[c] = "idle" /\ EveryFetchReturnedRecords) =>
            /\ result[c].tickets # <<>>
            /\ result[c].status \in {"CURRENT", "UPDATING"}

C8_Witness ==
    \E c \in Callers :
        /\ cpc[c] = "done" /\ ccalls[c] = 2 /\ bg_status[c] = "idle"
        /\ EveryFetchReturnedRecords
        /\ result[c].status = "UPDATING"

\* C9: with a snapshot and force_refresh=false, the status execute_query
\* returns is UPDATING if a refresh is running when it is read, CURRENT otherwise.
C9_StatusTellsRefreshRunning ==
    [][\A c \in Callers : (cpc[c] = "return" /\ cpc'[c] = "return_flag") =>
          (cstatus'[c] = "UPDATING" <=> \E w \in Workers : Running(w))]_vars

\* C10: a refresh whose fetch failed or raised leaves the snapshot as it was.
C10_FailedRefreshKeepsSnapshot ==
    [][\A w \in Workers : (wout[w] \in {"failed", "raised"} /\ wpc'[w] # wpc[w]) =>
          ticket_cache' = ticket_cache]_vars

\* C11: no exception leaves execute_query; a call in which a statement raised
\* returns status ERROR, the exception's message, no records and is_updating=false.
C11_ExceptionGivesErrorResult ==
    \A c \in Callers :
        /\ cpc[c] # "escaped"
        /\ (cpc[c] = "done" /\ exc[c] # NoException) =>
              /\ result[c].status = "ERROR"
              /\ result[c].error = exc[c].msg
              /\ result[c].tickets = <<>>
              /\ result[c].is_updating = FALSE

C11_Witness ==
    \E c \in Callers :
        /\ cpc[c] = "done" /\ exc[c] = ThreadStartError
        /\ is_updating /\ nthreads = 0
        /\ result[c] = ErrorResult("can't start new thread")

\* C12 (as claimed): a refresh_ticket call starts one thread and returns at
\* once, and a thread that has ended has invoked the callback exactly once.
C12_CallbackExactlyOnce ==
    /\ nrefresh = Cardinality({r \in Refreshers : rpc[r] # "unborn"})
    /\ \A r \in Refreshers : (rpc[r] \in {"done", "died"} /\ callback[r]) => Len(invoked[r]) = 1

\* C13: no exception leaves fetch_ticket or fetch_transitions; a call whose
\* collaborator raised or returned nothing returns None, and the step that
\* ends such a call leaves transitions_cache as it was.
FetchFailed(r) == r = Raised \/ ~Truthy(r)

C13_FetchesReturnNoneOnFailure ==
    /\ [](\A t \in TicketThreads : tpc[t] # "escaped")
    /\ [](\A t \in TicketThreads :
            (tpc[t] = "done" /\ top[t] \in {"fetch_ticket", "fetch_transitions"}
                /\ response[t] # Unset /\ FetchFailed(response[t])) => tret[t] = PyNone)
    /\ [][\A t \in TicketThreads :
            (top[t] = "fetch_transitions" /\ tpc'[t] = "done" /\ tpc[t] # "done" /\ tret'[t] = PyNone)
                => transitions_cache' = transitions_cache]_vars

C13_Witness ==
    \E t \in TicketThreads :
        /\ tpc[t] = "done" /\ top[t] = "fetch_transitions"
        /\ response[t] = Dict(0) /\ tret[t] = PyNone
        /\ DOMAIN transitions_cache = TicketKeys \ {ticket_key[t]}

\* C14 (as claimed): a fetch_transitions call that starts after a call has
\* returned a list for the key returns that list and does not call the
\* collaborator; the collaborator is called with transitions_lock not held
\* and the result is stored with it held.
C14_CacheFirst ==
    /\ \A t \in TicketThreads :
          (tpc[t] = "done" /\ top[t] = "fetch_transitions" /\ tknown[t] # {}) =>
              /\ tknown[t] = {tret[t]}
              /\ response[t] = Unset
    /\ \A t \in TicketThreads : tpc[t] = "ft_call" => transitions_lock # TicketThread(t)
    /\ \A t \in TicketThreads : tpc[t] = "ft_store" => transitions_lock = TicketThread(t)

\* C15 (as claimed): an entry of transitions_cache, once stored, is never
\* removed or replaced by another list.
C15_EntryNeverReplaced ==
    [][\A k \in DOMAIN transitions_cache :
          k \in DOMAIN transitions_cache' /\ transitions_cache'[k] = transitions_cache[k]]_vars

\* The last call and the one before it name the same category and key and
\* were made with no time passing between them.
SameIdentityAtOnce == last.category = prev.category /\ last.key = prev.key /\ last.at = prev.at

\* C16: get(category, subkey) made right after set(category, payload, ttl,
\* subkey) with ttl > 0 returns payload, in both stores.
C16_SetThenGetReturnsPayload ==
    (last.op = "get" /\ ~last.force /\ prev.op = "set" /\ prev.ttl > 0 /\ SameIdentityAtOnce) =>
        (last.sq = prev.data /\ last.jc = prev.data)

C16_Witness ==
    /\ last.op = "get" /\ ~last.force /\ prev.op = "set" /\ SameIdentityAtOnce
    /\ last.key = "k" /\ last.n = 3
    /\ last.sq = Payload(2) /\ last.jc = Payload(2)

\* What each store holds for (category, key): the row of the table, and the
\* entry dict (a dict with a timestamp and a ttl) found at that place.
RowOf(c, key) == Select(metadata, c, IF key = NoneKey THEN "" ELSE key)
HoldsEntry(c, key) ==
    /\ c \in DOMAIN cache
    /\ key # NoneKey => (key \in DOMAIN cache[c])
    /\ LET e == IF key = NoneKey THEN cache[c] ELSE cache[c][key]
       IN {"timestamp", "ttl"} \subseteq DOMAIN e
EntryOf(c, key) == IF key = NoneKey THEN cache[c] ELSE cache[c][key]

C18_ReadsLeaveStore ==
    /\ [][(last'.n # last.n /\ last'.op \in {"get", "is_cached", "get_age"}) =>
             (metadata' = metadata /\ cache' = cache /\ cache_file' = cache_file)]_vars
    /\ [](last.op = "get_age" =>
             /\ RowOf(last.category, last.key) # {} =>
                   last.sq = FormatAge(last.at - (CHOOSE r \in RowOf(last.category, last.key) : TRUE).cached_at)
             /\ HoldsEntry(last.category, last.key) => last.jc # PyStr(<<"never cached">>))

C18_Witness ==
    /\ last.op = "get_age" /\ prev.op = "get" /\ ~prev.force
    /\ last.category = prev.category /\ last.key = prev.key
    /\ prev.sq.type = "None" /\ prev.jc.type = "None"
    /\ last.sq = PyStr(<<3, "s ago">>) /\ last.jc = PyStr(<<"just now">>)

\* C19: in JiraSQLiteCache no row has a NULL key, the table holds one row at
\* most per (category, key), and key=None and key='' name the same row for
\* set, get, is_cached, get_age and invalidate.
C19_AbsentSubkeyIsEmptyString ==
    /\ \A r \in metadata : r.key # NoneKey
    /\ \A r1, r2 \in metadata : (r1.category = r2.category /\ r1.key = r2.key) => r1 = r2
    /\ \A c \in Categories :
          /\ SQLiteGet(metadata, now, c, NoneKey, FALSE) = SQLiteGet(metadata, now, c, "", FALSE)
          /\ SQLiteIsCached(metadata, now, c, NoneKey) = SQLiteIsCached(metadata, now, c, "")
          /\ SQLiteGetAge(metadata, now, c, NoneKey) = SQLiteGetAge(metadata, now, c, "")
    /\ (last.op = "set" /\ last.key \in {NoneKey, ""}) =>
          Select(metadata, last.category, "") =
              {[category |-> last.category, key |-> "", data |-> Pickle(last.data),
                ttl |-> last.ttl, cached_at |-> last.at]}
    /\ (last.op = "invalidate" /\ last.key \in {NoneKey, ""}) =>
          Select(metadata, last.category, "") = {}

C19_Witness ==
    /\ last.op = "get" /\ last.key = "" /\ ~last.force
    /\ prev.op = "set" /\ prev.key = NoneKey /\ prev.category = last.category
    /\ last.n = 3 /\ Cardinality(metadata) = 1
    /\ last.sq = prev.data

\* C20 (as claimed): after invalidate(category, key) get returns None and
\* is_cached is false for that key, and after invalidate(category) with no
\* key for every key of the category, in both stores.
C20_InvalidateDeletes ==
    last.op = "invalidate" =>
        \A key \in (IF last.key = NoneKey THEN Subkeys ELSE {last.key}) :
            /\ SQLiteGet(metadata, now, last.category, key, FALSE) = PyNone
            /\ ~SQLiteIsCached(metadata, now, last.category, key)
            /\ JiraCacheGet(cache, now, last.category, key, FALSE) = PyNone
            /\ ~JiraCacheIsCached(cache, now, last.category, key)

\* C21 (as claimed): get_age(category, key) on an identity neither store
\* holds returns the string "never cached", in both stores.
C21_GetAgeNeverCached ==
    (last.op = "get_age" /\ RowOf(last.category, last.key) = {}
                         /\ ~HoldsEntry(last.category, last.key)) =>
        (last.sq = PyStr(<<"never cached">>) /\ last.jc = PyStr(<<"never cached">>))

\* The 'updated' strings in their order as str: "1" < "10" < "2".
StampOrder == << <<1>>, <<1, 0>>, <<2>> >>
Before(a, b) == \E i, j \in DOMAIN StampOrder : StampOrder[i] = a /\ StampOrder[j] = b /\ i < j

\* C22: get_stale_ticket_keys(fresh_tickets) returns, each once, exactly the
\* keys of fresh_tickets with no row in tickets or whose row's updated is
\* strictly less than the stamp given; a key whose row's updated is equal or
\* greater is not returned; the call leaves every table as it is.
C22_StaleKeysExactly ==
    /\ [](last.op = "get_stale_ticket_keys" =>
             LET fresh == last.data.val
                 ret == last.sq.val
                 Stale(i) == \A r \in db_tickets : r.key = fresh[i][1] => Before(r.updated, fresh[i][2])
             IN /\ {ret[n] : n \in DOMAIN ret} = {fresh[i][1] : i \in {x \in DOMAIN fresh : Stale(x)}}
                /\ \A m, n \in DOMAIN ret : ret[m] = ret[n] => m = n)
    /\ [][(last'.n # last.n /\ last'.op = "get_stale_ticket_keys") =>
             (dbvars' = dbvars /\ metadata' = metadata)]_vars

\* Two tickets stored; one asked with the stamp it has, one with a later stamp.
C22_Witness ==
    /\ last.op = "get_stale_ticket_keys"
    /\ last.data.val = << <<"A-1", <<1, 0>>>>, <<"A-2", <<2>>>> >>
    /\ \E r \in db_tickets : r.key = "A-1" /\ r.updated = <<1, 0>>
    /\ \E r \in db_tickets : r.key = "A-2" /\ r.updated = <<1, 0>>
    /\ last.sq.val = <<"A-2">>

\* The step is the call op, made right after the call last records.
CallStep(op) == last'.n = last.n + 1 /\ last'.op = op

C24_ClearsFrame ==
    /\ [][CallStep("clear_tickets") =>
             /\ db_tickets' = {} /\ db_query_results' = {}
             /\ \A jql \in Jqls, ttl_seconds \in QueryTtls :
                   SQLiteGetQueryResult(db_query_results', now', jql, ttl_seconds) = PyNone
             /\ db_users' = db_users /\ metadata' = metadata]_vars
    /\ [][CallStep("clear_users") =>
             /\ db_users' = {}
             /\ db_tickets' = db_tickets /\ db_query_results' = db_query_results
             /\ metadata' = metadata]_vars

\* A metadata row and a query result stored, then clear_tickets.
C24_Witness ==
    /\ last.op = "clear_tickets" /\ prev.op = "set_query_result"
    /\ metadata # {} /\ db_query_results = {}

\* The step opens the instances of address u right after closing them.
Reopen(u) == dlast.op = "close" /\ dlast.url = u /\ dlast'.op = "open" /\ dlast'.url = u

\* C25 (as claimed): when the instances of an address are closed and opened
\* again, every entry the closed instance had written that get returned is
\* returned by get on the new instance, in both stores.
C25_SecondInstanceSeesEntries ==
    [][\A u \in Urls : Reopen(u) =>
          \A c \in DiskCategories :
              /\ (inst[u].sq /\ SQLiteGet(db_file.metadata, now, c, NoneKey, FALSE) # PyNone) =>
                     /\ inst'[u].sq
                     /\ SQLiteGet(db_file'.metadata, now', c, NoneKey, FALSE)
                            = SQLiteGet(db_file.metadata, now, c, NoneKey, FALSE)
              /\ (inst[u].jc /\ c \in inst[u].saved) =>
                     /\ inst'[u].jc
                     /\ JiraCacheGet(inst'[u].cache, now', c, NoneKey, FALSE)
                            = JiraCacheGet(inst[u].cache, now, c, NoneKey, FALSE)]_vars

\* The step is a call that writes, made on the instances of address a.
WriteOn(a) ==
    /\ dlast'.n = dlast.n + 1 /\ dlast'.url = a
    /\ dlast'.op \in {"set", "set_ticket", "invalidate", "clear_tickets", "clear_all"}

\* C26 (as claimed): a set, set_ticket, invalidate, clear_tickets or
\* clear_all on the instances of one address changes nothing that get or
\* get_ticket returns on the open instances of the other address.
C26_AddressesIsolated ==
    [][\A a \in Urls, b \in Urls :
          (a # b /\ WriteOn(a) /\ inst[b].open) =>
              /\ inst[b].sq =>
                    /\ \A c \in DiskCategories :
                          SQLiteGet(db_file'.metadata, now', c, NoneKey, FALSE)
                              = SQLiteGet(db_file.metadata, now, c, NoneKey, FALSE)
                    /\ \A key \in DbKeys :
                          SQLiteGetTicket(db_file'.tickets, key) = SQLiteGetTicket(db_file.tickets, key)
              /\ inst[b].jc =>
                    \A c \in DiskCategories :
                        JiraCacheGet(inst'[b].cache, now', c, NoneKey, FALSE)
                            = JiraCacheGet(inst[b].cache, now, c, NoneKey, FALSE)]_vars

\* C27 (as claimed): opening the stores of an address never raises; on a file
\* that is damaged the file is discarded and the store starts empty, get
\* returning None for every category.
C27_OpenNeverRaises ==
    /\ [](dlast.op = "open" => (dlast.sq # Raised /\ dlast.jc # Raised))
    /\ [][\A u \in Urls :
             (dlast'.n = dlast.n + 1 /\ dlast'.op = "open" /\ dlast'.url = u) =>
                 /\ json_file.state \in {"corrupt", "not_utf8"} =>
                       /\ json_file'.state = "missing"
                       /\ inst'[u].jc
                       /\ \A c \in DiskCategories :
                             JiraCacheGet(inst'[u].cache, now', c, NoneKey, FALSE) = PyNone
                 /\ db_file.state = "corrupt" =>
                       /\ db_file' = [NoDb EXCEPT !.state = "db"]
                       /\ inst'[u].sq]_vars

\* C28 (as claimed): set returns normally whatever the disk and the encoder
\* do, and get on the same instance then returns the payload, in both stores.
C28_SetNeverRaises ==
    dlast.op = "set" =>
        /\ dlast.sq # NoInstance =>
              /\ dlast.sq = PyNone
              /\ SQLiteGet(db_file.metadata, now, dlast.category, dlast.key, FALSE) = dlast.data
        /\ dlast.jc # NoInstance =>
              /\ dlast.jc = PyNone
              /\ JiraCacheGet(inst[dlast.url].cache, now, dlast.category, dlast.key, FALSE) = dlast.data

RefresherThread(r) == <<"refresher", r>>

LockThreads ==
    {CallerThread(c) : c \in Callers} \cup {WorkerThread(w) : w \in Workers}
    \cup {TicketThread(t) : t \in TicketThreads} \cup {RefresherThread(r) : r \in Refreshers}

\* The controller locks thread x holds.
HeldBy(x) ==
    (IF update_lock = x THEN {"update_lock"} ELSE {})
    \cup (IF transitions_lock = x THEN {"transitions_lock"} ELSE {})

\* The threads inside code that runs a callback handed in by the user:
\* a worker in the page loop of fetch_all_jql_results (progress_callback after
\* each page), a refresher at "callback(ticket)" or "callback(None)".
InCallback ==
    {WorkerThread(w) : w \in {v \in Workers : wpc[v] = "page"}}
    \cup {RefresherThread(r) : r \in {q \in Refreshers : rpc[q] \in {"callback", "except"}}}

\* Calls made in all on QueryController, TicketController and CacheController.
LockCalls == TotalCalls + tcalls + last.n

\* One caller of execute_query and its workers, the callers of the
\* TicketController on one ticket and their refreshers, and
\* CacheController.clear_all (self.cache.clear_all(), no lock), side by side.
LockNext ==
    \/ (\E force \in BOOLEAN : ExecuteQuery(1, force)) /\ LockCalls' <= MaxLockCalls
    \/ CallerStep(1)
    \/ \E w \in Workers : WorkerStep(w)
    \/ (\E t \in TicketThreads : FetchTransitions(t, 1) \/ GetCachedTransitions(t, 1)
                                   \/ FetchTicket(t, 1) \/ RefreshTicket(t, 1))
       /\ LockCalls' <= MaxLockCalls
    \/ \E t \in TicketThreads : TicketThreadStep(t)
    \/ \E r \in Refreshers : RefresherStep(r)
    \/ ClearAll /\ LockCalls' <= MaxLockCalls

LockSpec == Init /\ [][LockNext]_vars

\* C30: a thread that acquires a controller lock holds none before; a thread
\* running a user callback holds none; and whoever holds a lock is inside its
\* with block with the step that leaves it enabled, so that no thread waits
\* for ever.
C30_LocksNeverNested ==
    /\ [][\A x \in LockThreads : HeldBy(x)' \ HeldBy(x) # {} => HeldBy(x) = {}]_vars
    /\ [](\A x \in InCallback : HeldBy(x) = {})
    /\ [](\A c \in Callers : update_lock = CallerThread(c) => ENABLED GetCachedCopy(c))
    /\ [](\A w \in Workers : update_lock = WorkerThread(w) => ENABLED Swap(w))
    /\ [](\A t \in TicketThreads : transitions_lock = TicketThread(t)
              => ENABLED (FtCheck(t) \/ FtStore(t) \/ GcRead(t)))

\* A worker is in the page loop, holding no lock, while a ticket thread holds
\* transitions_lock.
C30_Witness ==
    /\ \E w \in Workers : wpc[w] = "page" /\ HeldBy(WorkerThread(w)) = {}
    /\ \E t \in TicketThreads : transitions_lock = TicketThread(t)

\* The calls so far that are set_many_tickets, that read, that have ended with
\* an exception.
BatchCalls == {n \in 1..Len(khist) : khist[n].op = "set_many_tickets"}
ReadCalls == {n \in 1..Len(khist) : khist[n].op \in {"get_all_ticket_keys", "get_many_tickets"}
                                     /\ khist[n].ended = "returned"}
FailedCalls == {n \in 1..Len(khist) : khist[n].ended \notin {"no", "returned"}}

\* The rows among rows that call n stored.
RowsOfCall(rows, n) == {r \in rows : Unpickle(r.data).val[1] = n}

\* C31 (as claimed): a read made on another thread holds none of a batch's
\* rows or a row for every key of the batch, and a set_many_tickets that an
\* exception has left has no row in the table and none in any read.
C31_BatchAllOrNothing ==
    /\ \A m \in ReadCalls, n \in BatchCalls :
          khist[m].thread # khist[n].thread /\ RowsOfCall(khist[m].ret, n) # {}
             => \A i \in 1..Len(khist[n].tickets) :
                   \E r \in khist[m].ret : r.key = khist[n].tickets[i].key
    /\ \A n \in BatchCalls \cap FailedCalls :
          /\ RowsOfCall(db_tickets, n) = {}
          /\ \A m \in ReadCalls : RowsOfCall(khist[m].ret, n) = {}

\* C32 (as claimed): the count clear_tickets returns is the number of rows
\* its DELETE FROM tickets removed.
C32_CountIsRemoved ==
    \A n \in 1..Len(khist) :
        khist[n].op = "clear_tickets" /\ khist[n].ended = "returned"
            => khist[n].count = khist[n].removed

\* C33 (as claimed): the transition fetches of bulk pre-fetching in flight
\* are at most max_workers.
C33_AtMostFiveInFlight == Cardinality(InFlight) <= max_workers

\* C34 (as claimed): is_updating is true while a worker has started and not
\* ended, and get_background_status reports is_running=true while a fetch is
\* in progress.
C34_FlagCoversRefresh ==
    /\ [](\A w \in Workers : Running(w) => is_updating)
    /\ [][\A c \in Callers : (GetBackgroundStatus(c) /\ \E w \in Workers : InFetch(w))
              => bg_status'[c] = "running"]_vars

\* C36 (as claimed): in every result execute_query returns, is_updating is
\* true exactly with status UPDATING or FIRST_RUN, false exactly with CURRENT
\* or ERROR.
C36_StatusAgreesWithFlag ==
    \A c \in Callers : cpc[c] = "done" =>
        /\ result[c].status \in {"UPDATING", "FIRST_RUN", "CURRENT", "ERROR"}
        /\ result[c].is_updating <=> result[c].status \in {"UPDATING", "FIRST_RUN"}

\* C35 (as claimed): the records execute_query(q, fields) returns come from a
\* fetch issued for the query text q.
C35_RecordsOfSameQuery ==
    \A c \in Callers : cpc[c] = "done" =>
        \A i \in 1..Len(result[c].tickets) : wjql[result[c].tickets[i].gen] = cjql[c]

\* C37 (as claimed): a call that begins after a refresh has ended with success
\* does not return FIRST_RUN.
C37_FirstRunOnlyBeforeRefresh ==
    \A c \in Callers : (cpc[c] = "done" /\ refreshed[c]) => result[c].status # "FIRST_RUN"


\* C38: every tuple get_background_status returns is (False, None, None) or
\* (True, number, number): the progress values are None exactly when
\* is_running is False.
C38_StatusTupleConsistent ==
    gpc = "returned" =>
        /\ gret.current.type = "None" <=> ~gret.is_running
        /\ gret.total.type = "None" <=> ~gret.is_running

\* C39: a set or an invalidate of JiraCache changes what get returns for no
\* identity (category, subkey) other than the one it was given; get is
\* defined (raises nothing) for every identity.
C39_OtherEntriesKept ==
    [][\A c2 \in Categories, key2 \in Subkeys :
          (/\ last'.n = last.n + 1
           /\ last'.op \in {"set", "invalidate"}
           /\ <<c2, key2>> # <<last'.category, last'.key>>)
          => JiraCacheGet(cache', now, c2, key2, FALSE) = JiraCacheGet(cache, now, c2, key2, FALSE)]_vars

\* The payload last given to set for identity (c, key) by any instance, None
\* when no set named it.
LastSetFor(c, key) ==
    LET named == {n \in 1..Len(twin_sets) : twin_sets[n].category = c /\ twin_sets[n].key = key}
    IN IF named = {} THEN PyNone
       ELSE twin_sets[CHOOSE n \in named : \A m \in named : m <= n].data

\* C40: with several live JiraCache instances for one address no write is lost:
\* an instance constructed when every set has returned gets, for every
\* identity, the payload last set for it by whichever instance.
C40_NoWriteLost ==
    [][\A i \in Twins :
          (~live[i].open /\ live'[i].open /\ \A j \in Twins : ~live[j].saving)
          => \A c \in DiskCategories, key \in TwinKeys :
                JiraCacheGet(live'[i].cache, now, c, key, FALSE) = LastSetFor(c, key)]_vars

====
